---- MODULE Spec2Model ----
(***************************************************************************)
(* Model of PoshmarkScraper.get_listing_links (src/poshmark_scraper.py):   *)
(* the listing-discovery and pagination engine.  One action per HTTP       *)
(* exchange of the function; the response documents are JSON values, the   *)
(* strings are sequences of one-character strings so that prefix tests,    *)
(* concatenation and base64 are computed and not assumed.                  *)
(***************************************************************************)
EXTENDS Integers, Sequences, FiniteSets, TLC

(***************************************************************************)
(* Bounds of the model and constants of the program.                       *)
(***************************************************************************)
\* max_pages ranges over 0..MaxPagesBound
MaxPagesBound == 4
\* "count": 48 of the request template, and the short-page threshold
PageSize == 48
\* len(listing_links) < 50 activates the HTML fallback
FallbackThreshold == 50
\* extract_listings gives up below this depth
DepthLimit == 10

(***************************************************************************)
(* Strings.                                                                *)
(***************************************************************************)
Origin == <<"h","t","t","p","s",":","/","/","p","o","s","h","m","a","r","k",".","c","o","m">>
HttpPrefix == <<"h","t","t","p">>
ListingDir == <<"/","l","i","s","t","i","n","g","/">>
EncMarker == <<"E","N","C","_">>

\* str.startswith
StartsWith(s, p) == Len(s) >= Len(p) /\ SubSeq(s, 1, Len(p)) = p

Digits == <<"0","1","2","3","4","5","6","7","8","9">>

\* str(n) / json.dumps(n) of a natural number
RECURSIVE Dec(_)
Dec(n) == IF n < 10 THEN <<Digits[n + 1]>> ELSE Dec(n \div 10) \o <<Digits[(n % 10) + 1]>>

Range(s) == {s[i] : i \in DOMAIN s}

(***************************************************************************)
(* JSON values as the json module decodes them: a tag and a payload.  An   *)
(* object keeps its pairs in document order (dict insertion order).        *)
(***************************************************************************)
Null == [t |-> "null", v |-> <<>>]
Str(s) == [t |-> "str", v |-> s]
Num(n) == [t |-> "num", v |-> n]
Arr(items) == [t |-> "arr", v |-> items]
Obj(pairs) == [t |-> "obj", v |-> pairs]

\* `key in obj`
HasKey(o, k) == \E i \in DOMAIN o.v : o.v[i][1] = k
\* obj[key] when present, and obj.get(key) (None when absent)
Get(o, k) == IF HasKey(o, k) THEN o.v[CHOOSE i \in DOMAIN o.v : o.v[i][1] = k][2] ELSE Null

\* Python truth value of a decoded JSON value
Truthy(x) == CASE x.t = "null" -> FALSE
               [] x.t = "str" -> x.v # <<>>
               [] x.t = "num" -> x.v # 0
               [] x.t = "arr" -> x.v # <<>>
               [] x.t = "obj" -> x.v # <<>>

\* the value holds a string with a lone surrogate, which the utf-8 codec
\* refuses to encode (the character is spelled out)
RECURSIVE HasSurrogate(_)
HasSurrogate(x) ==
    CASE x.t = "str" -> "surrogate" \in Range(x.v)
      [] x.t = "arr" -> \E i \in DOMAIN x.v : HasSurrogate(x.v[i])
      [] x.t = "obj" -> \E i \in DOMAIN x.v : HasSurrogate(x.v[i][2])
      [] OTHER -> FALSE

\* a or b or c
Or3(a, b, c) == IF Truthy(a) THEN a ELSE IF Truthy(b) THEN b ELSE c

\* str(x) inside an f-string, for the identifiers the model uses
PyStr(x) == IF x.t = "str" THEN x.v ELSE IF x.t = "num" THEN Dec(x.v) ELSE <<>>

(***************************************************************************)
(* extract_listings: the depth-bounded search for the listing array.       *)
(***************************************************************************)
ShapeKeys == <<"canonical_path", "path", "id", "title", "listing_id", "post_id">>
SkippedKeys == {"metadata", "facets", "summaries"}

\* any(key in obj for key in [...]): the mapping looks like a listing
LooksLikeListing(o) == \E i \in DOMAIN ShapeKeys : HasKey(o, ShapeKeys[i])

\* 'k' in obj and isinstance(obj['k'], list)
HasListUnder(o, k) == HasKey(o, k) /\ Get(o, k).t = "arr"

HasKeyedArray(o) ==
    HasListUnder(o, "posts") \/ HasListUnder(o, "data") \/ HasListUnder(o, "listings")

\* KeyedArray looking under data first
KeyedArrayDataFirst(o) ==
    IF HasListUnder(o, "data") THEN Get(o, "data").v
    ELSE IF HasListUnder(o, "posts") THEN Get(o, "posts").v
    ELSE Get(o, "listings").v

\* The three early returns of a mapping: posts, then data, then listings
KeyedArray(o) ==
    IF HasListUnder(o, "posts") THEN Get(o, "posts").v
    ELSE IF HasListUnder(o, "data") THEN Get(o, "data").v
    ELSE Get(o, "listings").v

RECURSIVE extract_listings(_, _), ExtendFromPairs(_, _, _), ExtendFromItems(_, _, _)
extract_listings(obj, depth) ==
    IF depth > DepthLimit THEN <<>>
    ELSE IF obj.t = "obj" THEN
        IF HasKeyedArray(obj) THEN KeyedArray(obj)
        ELSE IF LooksLikeListing(obj) THEN <<obj>>
        ELSE ExtendFromPairs(obj.v, 1, depth)
    ELSE IF obj.t = "arr" THEN
        IF obj.v # <<>> /\ obj.v[1].t = "obj" /\ LooksLikeListing(obj.v[1]) THEN obj.v
        ELSE ExtendFromItems(obj.v, 1, depth)
    ELSE <<>>

\* ExtendFromPairs returning what the first branch with a result yields
RECURSIVE ExtendFromPairsFirstOnly(_, _, _)
ExtendFromPairsFirstOnly(pairs, i, depth) ==
    IF i > Len(pairs) THEN <<>>
    ELSE IF pairs[i][1] \notin SkippedKeys /\ extract_listings(pairs[i][2], depth + 1) # <<>>
    THEN extract_listings(pairs[i][2], depth + 1)
    ELSE ExtendFromPairsFirstOnly(pairs, i + 1, depth)

\* for key, value in obj.items(): if key not in [...]: listings.extend(...)
ExtendFromPairs(pairs, i, depth) ==
    IF i > Len(pairs) THEN <<>>
    ELSE (IF pairs[i][1] \in SkippedKeys THEN <<>> ELSE extract_listings(pairs[i][2], depth + 1))
         \o ExtendFromPairs(pairs, i + 1, depth)

\* for item in obj: listings.extend(...)
ExtendFromItems(items, i, depth) ==
    IF i > Len(items) THEN <<>>
    ELSE extract_listings(items[i], depth + 1) \o ExtendFromItems(items, i + 1, depth)

(***************************************************************************)
(* Path resolution and the append of one listing.                          *)
(***************************************************************************)
Lower == {"a","b","c","d","e","f","g","h","i","j","k","l","m","n","o","p","q","r","s","t","u","v","w","x","y","z"}
Upper == {"A","B","C","D","E","F","G","H","I","J","K","L","M","N","O","P","Q","R","S","T","U","V","W","X","Y","Z"}
\* \w of the regular expression
WordChars == Lower \cup Upper \cup Range(Digits) \cup {"_"}

\* \s of the regular expression and the characters str.strip() removes
Whitespace == {" ", "\t", "\n"}

RECURSIVE LStrip(_)
LStrip(s) == IF s # <<>> /\ Head(s) \in Whitespace THEN LStrip(Tail(s)) ELSE s
RECURSIVE RStrip(_)
RStrip(s) == IF s # <<>> /\ s[Len(s)] \in Whitespace THEN RStrip(SubSeq(s, 1, Len(s) - 1)) ELSE s

KeptBySlug(c) == c \in WordChars \/ c \in Whitespace \/ c = "-"
\* str.replace(' ', '-')
SpacesToHyphens(s) == [i \in DOMAIN s |-> IF s[i] = " " THEN "-" ELSE s[i]]
\* str.lower() of an ASCII string
LowerOf(c) ==
    IF c \in Upper
    THEN <<"a","b","c","d","e","f","g","h","i","j","k","l","m","n","o","p","q","r","s","t","u","v","w","x","y","z">>[
            CHOOSE i \in 1..26 : <<"A","B","C","D","E","F","G","H","I","J","K","L","M","N","O","P","Q","R","S","T","U","V","W","X","Y","Z">>[i] = c]
    ELSE c
\* TitleSlug lowercasing the title
TitleSlugLowered(title) ==
    SpacesToHyphens(RStrip(LStrip(SelectSeq([i \in DOMAIN title |-> LowerOf(title[i])], KeptBySlug))))
\* re.sub(r'[^\w\s-]', '', title).strip().replace(' ', '-')
TitleSlug(title) == SpacesToHyphens(RStrip(LStrip(SelectSeq(title, KeptBySlug))))

\* listing.get('id') or listing.get('listing_id') or listing.get('post_id')
ListingId(l) == Or3(Get(l, "id"), Get(l, "listing_id"), Get(l, "post_id"))
\* the paging loop's first lookup leaves post_id out
ListingIdNoPost(l) == Or3(Get(l, "id"), Get(l, "listing_id"), Null)

\* PathFrom looking at path before canonical_path
PathFromPathFirst(l, lid) ==
    IF HasKey(l, "path") THEN [raised |-> FALSE, path |-> Get(l, "path")]
    ELSE IF HasKey(l, "canonical_path") THEN [raised |-> FALSE, path |-> Get(l, "canonical_path")]
    ELSE IF HasKey(l, "url") THEN [raised |-> FALSE, path |-> Get(l, "url")]
    ELSE IF HasKey(l, "title") /\ Truthy(lid) THEN
        IF Get(l, "title").t # "str" THEN [raised |-> TRUE, path |-> Null]
        ELSE [raised |-> FALSE,
              path |-> Str(ListingDir \o TitleSlug(Get(l, "title").v) \o <<"-">> \o PyStr(lid))]
    ELSE IF Truthy(lid) THEN [raised |-> FALSE, path |-> Str(ListingDir \o PyStr(lid))]
    ELSE [raised |-> FALSE, path |-> Null]

\* The if/elif chain that picks url_path; [raised, path].  A title that is
\* no string makes re.sub raise TypeError.
PathFrom(l, lid) ==
    IF HasKey(l, "canonical_path") THEN [raised |-> FALSE, path |-> Get(l, "canonical_path")]
    ELSE IF HasKey(l, "path") THEN [raised |-> FALSE, path |-> Get(l, "path")]
    ELSE IF HasKey(l, "url") THEN [raised |-> FALSE, path |-> Get(l, "url")]
    ELSE IF HasKey(l, "title") /\ Truthy(lid) THEN
        IF Get(l, "title").t # "str" THEN [raised |-> TRUE, path |-> Null]
        ELSE [raised |-> FALSE,
              path |-> Str(ListingDir \o TitleSlug(Get(l, "title").v) \o <<"-">> \o PyStr(lid))]
    ELSE IF Truthy(lid) THEN [raised |-> FALSE, path |-> Str(ListingDir \o PyStr(lid))]
    ELSE [raised |-> FALSE, path |-> Null]

ResolvePath(l) == PathFrom(l, ListingId(l))

\* Absolutize prefixing every value
AbsolutizeAlways(url) == Origin \o url

\* Absolutize leaving every value as it is
AbsolutizeNever(url) == url

\* if not url_path.startswith('http'): url_path = f"https://poshmark.com{url_path}"
Absolutize(url) == IF StartsWith(url, HttpPrefix) THEN url ELSE Origin \o url

\* AppendLink without the membership test
AppendLinkUnchecked(links, url) == Append(links, url)

\* AppendLink inserting at the front
AppendLinkFront(links, url) == IF url \in Range(links) THEN links ELSE <<url>> \o links

\* if url_path not in listing_links: listing_links.append(url_path)
AppendLink(links, url) == IF url \in Range(links) THEN links ELSE Append(links, url)

\* seen_ids.add on a first sighting
AddSeen(seen, lid) == IF Truthy(lid) /\ lid \notin seen THEN seen \cup {lid} ELSE seen

\* if url_path: absolutize and append; new_count += 1 on an append.  A
\* truthy url_path that is no string has no startswith: AttributeError.
AppendResolved(st, path, links2) ==
    [st EXCEPT !.links = links2, !.handled = @ + 1,
               !.new_count = IF links2 = st.links THEN @ ELSE @ + 1]

UsePath(st, path) ==
    IF ~Truthy(path) THEN [st EXCEPT !.handled = @ + 1]
    ELSE IF path.t # "str" THEN [st EXCEPT !.raised = TRUE]
    ELSE AppendResolved(st, path, AppendLink(st.links, Absolutize(path.v)))

UseResolved(st, r) == IF r.raised THEN [st EXCEPT !.raised = TRUE] ELSE UsePath(st, r.path)

\* One pass of the body of `for listing in page_listings` over a processing
\* state [links, seen, new_count, raised, handled]; handled counts the
\* listings whose body ran to its end.
ProcessOne(l, st, withPost) ==
    IF l.t # "obj" THEN [st EXCEPT !.handled = @ + 1]
    ELSE UseResolved(
            [st EXCEPT !.seen = AddSeen(@, IF withPost THEN ListingId(l) ELSE ListingIdNoPost(l))],
            ResolvePath(l))

\* for listing in page_listings: ... ; stops at the first exception
RECURSIVE ProcessFrom(_, _, _, _)
ProcessFrom(ls, i, st, withPost) ==
    IF i > Len(ls) \/ st.raised THEN st
    ELSE ProcessFrom(ls, i + 1, ProcessOne(ls[i], st, withPost), withPost)

ProcessListings(ls, links, seen, withPost) ==
    ProcessFrom(ls, 1, [links |-> links, seen |-> seen, new_count |-> 0,
                        raised |-> FALSE, handled |-> 0], withPost)

(***************************************************************************)
(* The cursor searches.                                                    *)
(***************************************************************************)
\* find_next_max_id of the paging and restart loops; cur is the enclosing
\* max_id the nested function reads.
RECURSIVE find_next_max_id(_, _), NextInPairs(_, _, _), NextInItems(_, _, _)
find_next_max_id(obj, cur) ==
    IF obj.t = "obj" THEN
        IF HasKey(obj, "next_max_id") THEN Get(obj, "next_max_id")
        ELSE IF HasKey(obj, "max_id") /\ Get(obj, "max_id") # cur THEN Get(obj, "max_id")
        ELSE NextInPairs(obj.v, 1, cur)
    ELSE IF obj.t = "arr" THEN NextInItems(obj.v, 1, cur)
    ELSE Null

NextInPairs(pairs, i, cur) ==
    IF i > Len(pairs) THEN Null
    ELSE LET result == find_next_max_id(pairs[i][2], cur)
         IN  IF Truthy(result) THEN result ELSE NextInPairs(pairs, i + 1, cur)

NextInItems(items, i, cur) ==
    IF i > Len(items) THEN Null
    ELSE LET result == find_next_max_id(items[i], cur)
         IN  IF Truthy(result) THEN result ELSE NextInItems(items, i + 1, cur)

\* find_next_max_id of the fallback call: any max_id is taken
RECURSIVE find_max_id_retry(_), RetryInPairs(_, _), RetryInItems(_, _)
find_max_id_retry(obj) ==
    IF obj.t = "obj" THEN
        IF HasKey(obj, "next_max_id") THEN Get(obj, "next_max_id")
        ELSE IF HasKey(obj, "max_id") THEN Get(obj, "max_id")
        ELSE RetryInPairs(obj.v, 1)
    ELSE IF obj.t = "arr" THEN RetryInItems(obj.v, 1)
    ELSE Null

RetryInPairs(pairs, i) ==
    IF i > Len(pairs) THEN Null
    ELSE LET result == find_max_id_retry(pairs[i][2])
         IN  IF Truthy(result) THEN result ELSE RetryInPairs(pairs, i + 1)

RetryInItems(items, i) ==
    IF i > Len(items) THEN Null
    ELSE LET result == find_max_id_retry(items[i])
         IN  IF Truthy(result) THEN result ELSE RetryInItems(items, i + 1)

RECURSIVE find_page_group_id(_), GroupInPairs(_, _), GroupInItems(_, _)
find_page_group_id(obj) ==
    IF obj.t = "obj" THEN
        IF HasKey(obj, "page_group_id") THEN Get(obj, "page_group_id")
        ELSE GroupInPairs(obj.v, 1)
    ELSE IF obj.t = "arr" THEN GroupInItems(obj.v, 1)
    ELSE Null

GroupInPairs(pairs, i) ==
    IF i > Len(pairs) THEN Null
    ELSE LET result == find_page_group_id(pairs[i][2])
         IN  IF Truthy(result) THEN result ELSE GroupInPairs(pairs, i + 1)

GroupInItems(items, i) ==
    IF i > Len(items) THEN Null
    ELSE LET result == find_page_group_id(items[i])
         IN  IF Truthy(result) THEN result ELSE GroupInItems(items, i + 1)

\* initial_data.get('next_max_id') or initial_data.get('max_id'): top level only
InitialCursor(doc) ==
    IF Truthy(Get(doc, "next_max_id")) THEN Get(doc, "next_max_id") ELSE Get(doc, "max_id")

(***************************************************************************)
(* The synthesized cursor: json.dumps, base64.b64encode, rstrip('=').      *)
(***************************************************************************)
AsciiPrintable ==
   <<" ", "!", "\"", "#", "$", "%", "&", "'", "(", ")", "*", "+", ",", "-", ".", "/",
      "0", "1", "2", "3", "4", "5", "6", "7", "8", "9", ":", ";", "<", "=", ">", "?",
      "@", "A", "B", "C", "D", "E", "F", "G", "H", "I", "J", "K", "L", "M", "N", "O",
      "P", "Q", "R", "S", "T", "U", "V", "W", "X", "Y", "Z", "[", "backslash", "]", "^", "_",
      "grave", "a", "b", "c", "d", "e", "f", "g", "h", "i", "j", "k", "l", "m", "n", "o",
      "p", "q", "r", "s", "t", "u", "v", "w", "x", "y", "z", "{", "|", "}", "~">>

\* ord(c) of a printable ASCII character (codes 32..126; the two characters
\* the model never uses are spelled out)
Ord(c) == 31 + (CHOOSE i \in DOMAIN AsciiPrintable : AsciiPrintable[i] = c)

\* str.encode() of an ASCII string
Encode(s) == [i \in DOMAIN s |-> Ord(s[i])]

B64Alphabet ==
   <<"A", "B", "C", "D", "E", "F", "G", "H", "I", "J", "K", "L", "M", "N", "O", "P",
      "Q", "R", "S", "T", "U", "V", "W", "X", "Y", "Z", "a", "b", "c", "d", "e", "f",
      "g", "h", "i", "j", "k", "l", "m", "n", "o", "p", "q", "r", "s", "t", "u", "v",
      "w", "x", "y", "z", "0", "1", "2", "3", "4", "5", "6", "7", "8", "9", "+", "/">>

B64Char(n) == B64Alphabet[n + 1]

RECURSIVE b64encode(_)
b64encode(bs) ==
    IF bs = <<>> THEN <<>>
    ELSE LET n == Len(bs)
             v == bs[1] * 65536 + (IF n >= 2 THEN bs[2] ELSE 0) * 256 + (IF n >= 3 THEN bs[3] ELSE 0)
             c1 == B64Char(v \div 262144)
             c2 == B64Char((v \div 4096) % 64)
             c3 == B64Char((v \div 64) % 64)
             c4 == B64Char(v % 64)
         IN  IF n = 1 THEN <<c1, c2, "=", "=">>
             ELSE IF n = 2 THEN <<c1, c2, c3, "=">>
             ELSE <<c1, c2, c3, c4>> \o b64encode(SubSeq(bs, 4, n))

\* str.rstrip('=')
RECURSIVE RStripPad(_)
RStripPad(s) == IF s # <<>> /\ s[Len(s)] = "=" THEN RStripPad(SubSeq(s, 1, Len(s) - 1)) ELSE s

Quoted(s) == <<"\"">> \o s \o <<"\"">>
\* json.dumps of a string without characters to escape, or of a number
JsonScalar(x) == IF x.t = "str" THEN Quoted(x.v) ELSE Dec(x.v)

\* FallbackOffset counting the requested page in
FallbackOffsetThisPage(page_num) == PageSize * page_num

\* "max_ids": [48 * (page_num - 1)]
FallbackOffset(page_num) == PageSize * (page_num - 1)

\* json.dumps(max_id_data) with the default separators
MaxIdJson(pgid, page_num) ==
    <<"{">> \o Quoted(<<"m","a","x","_","i","d","s">>) \o <<":"," ","[">>
      \o Dec(FallbackOffset(page_num)) \o <<"]",","," ">>
      \o Quoted(<<"p","a","g","e","_","n","u","m">>) \o <<":"," ">> \o Dec(page_num) \o <<","," ">>
      \o Quoted(<<"p","a","g","e","_","g","r","o","u","p","_","i","d">>) \o <<":"," ">>
      \o JsonScalar(pgid) \o <<"}">>

\* f"ENC_{max_id_encoded}"
EncodedCursor(pgid, page_num) ==
    EncMarker \o RStripPad(b64encode(Encode(MaxIdJson(pgid, page_num))))

\* RequestMaxId synthesizing a cursor for the first page too
RequestMaxIdAnyPage(cur, pgid, pn) ==
    IF Truthy(cur) THEN cur
    ELSE IF Truthy(pgid) THEN Str(EncodedCursor(pgid, pn))
    ELSE Null

\* RequestMaxId preferring the synthesized cursor once a page_group_id is known
RequestMaxIdGroupFirst(cur, pgid, pn) ==
    IF Truthy(pgid) /\ pn > 1 THEN Str(EncodedCursor(pgid, pn))
    ELSE IF Truthy(cur) THEN cur
    ELSE Null

\* The max_id the request carries: Null stands for a request without the key.
RequestMaxId(cur, pgid, pn) ==
    IF Truthy(cur) THEN cur
    ELSE IF Truthy(pgid) /\ pn > 1 THEN Str(EncodedCursor(pgid, pn))
    ELSE Null

(***************************************************************************)
(* The environment: closet pages and API response documents.  A run is     *)
(* played against one scenario, a closet page and the documents the API    *)
(* may answer with.                                                        *)
(***************************************************************************)
CursorX == Str(<<"X">>)
CursorY == Str(<<"Y">>)
CursorZ == Str(<<"Z">>)
GroupAbc == Str(<<"a","b","c">>)
GroupG7 == Str(<<"g","7">>)

\* a listing as the API sends it: an id and a canonical_path
CanonListing(i) ==
    Obj(<< <<"id", Str(Dec(i))>>, <<"canonical_path", Str(ListingDir \o Dec(i))>> >>)
ListingRun(lo, n) == Arr([k \in 1..n |-> CanonListing(lo + k - 1)])

RECURSIVE Nest(_, _)
\* doc wrapped k times in {"w": ...}
Nest(doc, k) == IF k = 0 THEN doc ELSE Obj(<< <<"w", Nest(doc, k - 1)>> >>)

PageA == Obj(<< <<"data", ListingRun(1, PageSize)>>, <<"next_max_id", CursorX>> >>)
PageB == Obj(<< <<"data", ListingRun(PageSize + 1, PageSize)>>, <<"next_max_id", CursorY>> >>)
PageC == Obj(<< <<"data", ListingRun(2 * PageSize + 1, 10)>> >>)
FullNoCursorA == Obj(<< <<"data", ListingRun(1, PageSize)>> >>)
FullNoCursorB == Obj(<< <<"data", ListingRun(PageSize + 1, PageSize)>>, <<"max_id", Null>> >>)

\* two listings and a cursor nested the way the live API nests it
ShortWithCursor ==
    Obj(<< <<"data", ListingRun(201, 2)>>, <<"more", Obj(<< <<"next_max_id", CursorZ>> >>)>> >>)
ShortNoCursor == Obj(<< <<"data", ListingRun(203, 1)>> >>)
EmptyDoc == Obj(<< <<"data", Arr(<<>>)>> >>)
EmptyWithCursor == Obj(<< <<"error", Null>>, <<"next_max_id", CursorX>> >>)

\* listings under a nested key, beside mappings that look like listings
SiblingDoc ==
    Obj(<< <<"status", Obj(<< <<"id", Str(<<"s">>)>> >>)>>,
           <<"metadata", Obj(<< <<"posts", ListingRun(301, 1)>> >>)>>,
           <<"result", Obj(<< <<"posts", ListingRun(302, 2)>> >>)>> >>)
\* a posts list below the depth limit
DeepDoc == Nest(Obj(<< <<"posts", ListingRun(303, 1)>> >>), DepthLimit + 1)
\* a posts list at the last depth that is still searched
EdgeDoc == Nest(Obj(<< <<"posts", ListingRun(304, 1)>> >>), DepthLimit)
\* posts at the top with data, listings and listing-shaped keys beside it
TopPostsDoc ==
    Obj(<< <<"id", Str(<<"u">>)>>, <<"title", Str(<<"c">>)>>,
           <<"data", ListingRun(305, 1)>>, <<"posts", ListingRun(306, 2)>>,
           <<"page_group_id", GroupG7>> >>)
\* a bare array of listings
ArrayDoc == Arr(<< CanonListing(307), Obj(<< <<"next_max_id", CursorY>> >>) >>)

\* one listing per path source, and the values that produce no link
VarietyDoc ==
    Obj(<< <<"listings", Arr(<<
        Obj(<< <<"canonical_path", Str(<<"h","t","t","p",":","/","/","x","/","1">>)>>,
               <<"path", Str(<<"/","p">>)>> >>),
        Obj(<< <<"canonical_path", Str(<<>>)>>, <<"path", Str(<<"/","q">>)>>,
               <<"id", Num(7)>> >>),
        Obj(<< <<"canonical_path", Null>>, <<"id", Num(8)>> >>),
        Obj(<< <<"path", Str(<<"/","r">>)>>, <<"url", Str(<<"/","u">>)>> >>),
        Obj(<< <<"url", Str(<<"/","u">>)>> >>),
        Obj(<< <<"title", Str(<<" ","R","e","d"," ","H","a","t","!"," ">>)>>,
               <<"post_id", Num(12)>> >>),
        Obj(<< <<"listing_id", Str(<<"4","0","1">>)>> >>),
        Str(<<"n","o","t","e">>),
        CanonListing(401),
        Obj(<< <<"title", Str(<<"n","o"," ","i","d">>)>> >>) >>)>> >>)
\* titled listings without a path field: capitals, underscore, tab, outer
\* whitespace, punctuation, and each of the three id fields
SlugDoc ==
    Obj(<< <<"posts", Arr(<<
        Obj(<< <<"title", Str(<<"N","i","k","e"," ","A","i","r">>)>>, <<"id", Num(9)>> >>),
        Obj(<< <<"title", Str(<<"a","_","b","\t","c">>)>>, <<"listing_id", Str(<<"7","7">>)>> >>),
        Obj(<< <<"title", Str(<<"\t","H","i","!"," ">>)>>, <<"post_id", Num(5)>> >>),
        Obj(<< <<"title", Str(<<"z","e","r","o">>)>>, <<"id", Num(0)>> >>),
        Obj(<< <<"id", Str(<<"o","n","l","y">>)>> >>) >>)>> >>)
\* two listings with one id and two paths, and the first path once more
\* under another id
DupIdDoc ==
    Obj(<< <<"data", Arr(<<
        Obj(<< <<"id", Str(<<"d","1">>)>>, <<"canonical_path", Str(ListingDir \o <<"a">>)>> >>),
        Obj(<< <<"id", Str(<<"d","1">>)>>, <<"canonical_path", Str(ListingDir \o <<"b">>)>> >>),
        Obj(<< <<"id", Str(<<"d","2">>)>>, <<"canonical_path", Str(ListingDir \o <<"a">>)>> >>) >>)>> >>)
\* a title holding a lone surrogate, as json decodes "\ud83d"
SurrogateDoc ==
    Obj(<< <<"data", Arr(<< Obj(<< <<"id", Num(601)>>,
                                   <<"canonical_path", Str(ListingDir \o Dec(601))>>,
                                   <<"title", Str(<<"surrogate">>)>> >>) >>)>>,
           <<"next_max_id", CursorX>> >>)
\* a max_id in one branch, ahead of a next_max_id in a later branch
PrecedenceDoc ==
    Obj(<< <<"data", Arr(<< CanonListing(701) >>)>>,
           <<"paging", Obj(<< <<"max_id", CursorY>> >>)>>,
           <<"more", Obj(<< <<"next_max_id", CursorZ>> >>)>> >>)
\* a listing whose canonical_path is a number, between two good ones
MalformedDoc ==
    Obj(<< <<"posts", Arr(<< CanonListing(501),
                             Obj(<< <<"canonical_path", Num(5)>> >>),
                             CanonListing(502) >>)>>,
           <<"next_max_id", CursorZ>> >>)

\* re.findall(r'/listing/[^"\'<>\s]+', html_text) and the page_group_id the
\* two regular-expression searches find (script strings, whole text)
NoHtml == [script_pgid |-> Null, text_pgid |-> Null, urls |-> <<>>]
LinksHtml ==
    [script_pgid |-> Null, text_pgid |-> Null,
     urls |-> << ListingDir \o <<"h","1">>, ListingDir \o Dec(201), ListingDir \o <<"h","1">> >>]
GroupHtml ==
    [script_pgid |-> GroupAbc, text_pgid |-> GroupAbc, urls |-> << ListingDir \o <<"h","2">> >>]
LateGroupHtml ==
    [script_pgid |-> Null, text_pgid |-> GroupAbc, urls |-> << ListingDir \o <<"h","3">> >>]

Scenarios ==
    << [html |-> NoHtml, docs |-> <<PageA, PageB, PageC>>],
       [html |-> LinksHtml, docs |-> <<ShortWithCursor, ShortNoCursor, EmptyDoc, EmptyWithCursor>>],
       [html |-> NoHtml, docs |-> <<SiblingDoc, DeepDoc, EdgeDoc, TopPostsDoc, ArrayDoc>>],
       [html |-> LinksHtml, docs |-> <<VarietyDoc, MalformedDoc, EmptyDoc>>],
       [html |-> GroupHtml, docs |-> <<FullNoCursorA, FullNoCursorB, EmptyDoc, PageA>>],
       [html |-> LateGroupHtml, docs |-> <<ShortNoCursor, EmptyDoc, PageA>>],
       [html |-> NoHtml, docs |-> <<SlugDoc, SurrogateDoc, DupIdDoc, EmptyDoc>>],
       [html |-> NoHtml, docs |-> <<PrecedenceDoc, EmptyDoc>>] >>

(***************************************************************************)
(* State of one call of get_listing_links.                                 *)
(***************************************************************************)
VARIABLES
    pc,                 \* where the call stands: start, initial, loop, fallback, retry, restart, done, raised
    scenario,           \* the closet page and the documents of this run
    max_pages,          \* the argument
    listing_links,      \* the list the call returns
    seen_ids,
    max_id,
    page_group_id,
    page_num,
    consecutive_empty,
    n_requests,         \* API page requests issued so far
    last,               \* the last API exchange and what became of it
    prev,               \* the exchange before it
    e2e,                \* how far the run has followed the three-page sequence
    exhausted_links     \* the links held when a loop stopped on two empty pages

\* State of one storage run: lambda_handler or a direct call of
\* scrape_listings_with_s3.
VARIABLES
    job,                \* the inputs of the run: caller, bucket given, incremental, links found, stored keys
    s3_pc,              \* handler, construct, scrape, links, each, final, returned, raised; idle outside a storage run
    s3_bucket,          \* self.s3_bucket is set
    existing_slugs,
    listing_urls,
    link_i,             \* the i of the per-link loop
    stats,
    calls,              \* network calls made so far, by kind; the links whose detail page was
                        \* asked for, and the links that reached the output, in order
    outcome             \* what the entry point handed back

gll_vars == <<pc, scenario, max_pages, listing_links, seen_ids, max_id, page_group_id,
              page_num, consecutive_empty, n_requests, last, prev, e2e, exhausted_links>>
s3_vars == <<job, s3_pc, s3_bucket, existing_slugs, listing_urls, link_i, stats, calls, outcome>>
vars == <<gll_vars, s3_vars>>

Html == Scenarios[scenario].html
Docs == Scenarios[scenario].docs

\* What session.get and .json() can come to: a decoded document, a non-2xx
\* status, an exception, an exception whose message names the file system.
FetchResults ==
    {[kind |-> "ok", doc |-> d] : d \in DOMAIN Docs}
    \cup {[kind |-> k, doc |-> 0] : k \in {"status", "raise", "raise_fs"}}

NoExchange ==
    [phase |-> "none", page |-> 0, sent |-> Null, cur |-> Null, kind |-> "none", doc |-> 0,
     result |-> "none", new_count |-> 0, handled |-> 0, before |-> <<>>,
     sleep |-> FALSE, dump |-> "none"]

NoStats == [total |-> 0, new |-> 0, updated |-> 0, skipped |-> 0]
NoCalls == [s3_list |-> 0, http |-> 0, s3_put |-> 0, links |-> 0, visited |-> <<>>, kept |-> <<>>]
NoOutcome == [kind |-> "none", status |-> 0, error |-> "none", stats |-> NoStats]

\* No storage run
S3Idle ==
    /\ job = [caller |-> "none", bucket |-> FALSE, incremental |-> FALSE, found |-> 0, stored |-> {}]
    /\ s3_pc = "idle"
    /\ s3_bucket = FALSE
    /\ existing_slugs = {}
    /\ listing_urls = <<>>
    /\ link_i = 0
    /\ stats = NoStats
    /\ calls = NoCalls
    /\ outcome = NoOutcome

Init ==
    /\ S3Idle
    /\ pc = "start"
    /\ scenario \in DOMAIN Scenarios
    /\ max_pages \in 0..MaxPagesBound
    /\ listing_links = <<>>
    /\ seen_ids = {}
    /\ max_id = Null
    /\ page_group_id = Null
    /\ page_num = 0
    /\ consecutive_empty = 0
    /\ n_requests = 0
    /\ last = NoExchange
    /\ prev = NoExchange
    /\ e2e = 0
    /\ exhausted_links = <<>>

\* The three-page sequence: the first request answered with PageA, the
\* request carrying X with PageB, the request carrying Y with PageC.
\* 0..3: exchanges of the sequence seen so far (3 stays), -1: the run left it.
E2eNext(step, sent, res) ==
    IF step = 3 THEN 3
    ELSE IF res.kind # "ok" \/ Truthy(Html.script_pgid) THEN -1
    ELSE IF step = 0 /\ n_requests = 0 /\ sent = Null /\ Docs[res.doc] = PageA THEN 1
    ELSE IF step = 1 /\ sent = CursorX /\ Docs[res.doc] = PageB THEN 2
    ELSE IF step = 2 /\ sent = CursorY /\ Docs[res.doc] = PageC THEN 3
    ELSE -1

\* FetchCloset going on to the HTML fallback when the status is not 2xx
FetchClosetScansOnStatus ==
    /\ pc = "start"
    /\ \E out \in {"ok", "notok", "raise"} :
        /\ pc' = CASE out = "ok" -> "initial" [] out = "notok" -> "fallback" [] out = "raise" -> "raised"
        /\ page_group_id' = IF out = "ok" THEN Html.script_pgid ELSE page_group_id
    /\ UNCHANGED <<scenario, max_pages, listing_links, seen_ids, max_id, page_num,
                   consecutive_empty, n_requests, last, prev, e2e, exhausted_links>>
    /\ UNCHANGED s3_vars

\* response = self.session.get(self.base_url); the page_group_id of the scripts
FetchCloset ==
    /\ pc = "start"
    /\ \E out \in {"ok", "notok", "raise"} :
        /\ pc' = CASE out = "ok" -> "initial" [] out = "notok" -> "done" [] out = "raise" -> "raised"
        /\ page_group_id' = IF out = "ok" THEN Html.script_pgid ELSE page_group_id
    /\ UNCHANGED <<scenario, max_pages, listing_links, seen_ids, max_id, page_num,
                   consecutive_empty, n_requests, last, prev, e2e, exhausted_links>>
    /\ UNCHANGED s3_vars

\* page_num = 2 if listing_links else 1
FirstPageNum(links) == IF links # <<>> THEN 2 ELSE 1

\* What an exchange that changes nothing leaves
Untouched(result) ==
    [links |-> listing_links, seen |-> seen_ids, cur |-> max_id, pgid |-> page_group_id,
     ce |-> consecutive_empty, pn |-> page_num, brk |-> TRUE,
     result |-> result, new_count |-> 0, handled |-> 0, sleep |-> FALSE, dump |-> "none"]

\* The initial response after its listings were processed into st: an
\* exception leaves the cursor unread.
InitialMined(doc, st) ==
    [Untouched(IF st.raised THEN "aborted" ELSE "mined") EXCEPT
        !.links = st.links, !.seen = st.seen,
        !.cur = IF st.raised THEN @ ELSE InitialCursor(doc),
        !.pgid = find_page_group_id(doc),
        !.new_count = st.new_count, !.handled = st.handled]

\* InitialDoc mining the response whether or not a page_group_id is held
InitialDocUngated(doc) ==
    IF doc.t # "obj" THEN Untouched("unmined")
    ELSE InitialMined(doc, ProcessListings(extract_listings(doc, 0), listing_links, seen_ids, TRUE))

\* if isinstance(initial_data, dict) and not page_group_id: mine the response
InitialDoc(doc) ==
    IF doc.t # "obj" \/ Truthy(page_group_id) THEN Untouched("unmined")
    ELSE InitialMined(doc, ProcessListings(extract_listings(doc, 0), listing_links, seen_ids, TRUE))

\* What the initial response leaves
InitialMining(res) == IF res.kind # "ok" THEN Untouched("failed") ELSE InitialDoc(Docs[res.doc])

\* LoopGuard letting one page more through
LoopGuardOneMore(pn) == pn <= max_pages + 1

\* while page_num <= max_pages
LoopGuard(pn) == pn <= max_pages

\* The record of an exchange
Exchange(phase, page, sent, res, m) ==
    [phase |-> phase, page |-> page, sent |-> sent, cur |-> max_id,
     kind |-> res.kind, doc |-> res.doc, result |-> m.result,
     new_count |-> m.new_count, handled |-> m.handled, before |-> listing_links,
     sleep |-> m.sleep, dump |-> m.dump]

InitialApply(res, m, pn) ==
    /\ listing_links' = m.links
    /\ seen_ids' = m.seen
    /\ max_id' = m.cur
    /\ page_group_id' = m.pgid
    /\ page_num' = pn
    /\ consecutive_empty' = 0
    /\ pc' = IF LoopGuard(pn) THEN "loop" ELSE "fallback"
    /\ last' = Exchange("initial", 1, Null, res, m)
    /\ e2e' = E2eNext(e2e, Null, res)

InitialApplyMined(res, m) == InitialApply(res, m, FirstPageNum(m.links))

\* The initial API call (no max_id) and the set-up of the paging loop
InitialApiCall ==
    /\ pc = "initial"
    /\ \E res \in FetchResults : InitialApplyMined(res, InitialMining(res))
    /\ prev' = last
    /\ n_requests' = n_requests + 1
    /\ UNCHANGED <<scenario, max_pages, exhausted_links>>
    /\ UNCHANGED s3_vars

\* EmptyPage stopping one empty page later
EmptyPageThree(ce) == [ce |-> ce + 1, brk |-> ce + 1 >= 3]

\* EmptyPage counting an empty page twice
EmptyPageTwice(ce) == [ce |-> ce + 2, brk |-> ce + 2 >= 2]

\* consecutive_empty += 1; if consecutive_empty >= 2: break
EmptyPage(ce) == [ce |-> ce + 1, brk |-> ce + 1 >= 2]

\* AfterPage without the short-page check
AfterPageNoShortCheck(next, cur, new_count) ==
    IF Truthy(next) /\ next # cur THEN [cur |-> next, brk |-> FALSE]
    ELSE [cur |-> cur, brk |-> FALSE]

\* The cursor update and the short-page check after a processed page
AfterPage(next, cur, new_count) ==
    IF Truthy(next) /\ next # cur THEN [cur |-> next, brk |-> FALSE]
    ELSE [cur |-> cur, brk |-> new_count < PageSize]

\* find_next_max_id(data) if isinstance(data, dict) else None
NextCursor(doc) == IF doc.t = "obj" THEN find_next_max_id(doc, max_id) ELSE Null

CycleEmpty(e) ==
    [Untouched("empty") EXCEPT !.ce = e.ce, !.brk = e.brk,
                               !.pn = IF e.brk THEN @ ELSE @ + 1]

CycleAborted(st) ==
    [Untouched("aborted") EXCEPT !.links = st.links, !.seen = st.seen, !.ce = 0,
                                 !.new_count = st.new_count, !.handled = st.handled]

\* The debug dump of the first page.  env is where the process runs: on
\* Lambda the dump is skipped; with a writable working directory json.dump
\* writes the file, or raises UnicodeEncodeError (no OSError) on a lone
\* surrogate, which leaves the inner try; when the first open raises OSError
\* the /tmp attempt follows and whatever it raises is passed over.
DumpEnvs == {"lambda", "writable", "readonly", "nowhere"}
DumpOutcome(doc, env) ==
    CASE env = "lambda" -> "none"
      [] env = "writable" -> IF HasSurrogate(doc) THEN "raised" ELSE "written"
      [] env = "readonly" -> IF HasSurrogate(doc) THEN "swallowed" ELSE "tmp"
      [] env = "nowhere" -> "swallowed"

\* if page_num == 1 and not os.getenv('AWS_LAMBDA_FUNCTION_NAME'), reached
\* only when the cursor update did not break
DumpOf(doc, a, dumps, env) ==
    IF dumps /\ ~a.brk /\ page_num = 1 THEN DumpOutcome(doc, env) ELSE "none"

\* After the per-listing loop: a dump that raises lands in the handler, whose
\* message test fails, and the loop breaks with the page counter as it was;
\* otherwise page_num += 1 and time.sleep(1) unless the cursor update broke.
CycleProcessed(st, a, dump) ==
    IF dump = "raised"
    THEN [Untouched("dumpfail") EXCEPT !.links = st.links, !.seen = st.seen, !.cur = a.cur,
                                       !.ce = 0, !.new_count = st.new_count,
                                       !.handled = st.handled, !.dump = dump]
    ELSE [Untouched("processed") EXCEPT !.links = st.links, !.seen = st.seen, !.cur = a.cur,
                                        !.ce = 0, !.brk = a.brk,
                                        !.pn = IF a.brk THEN @ ELSE @ + 1,
                                        !.new_count = st.new_count, !.handled = st.handled,
                                        !.sleep = ~a.brk, !.dump = dump]

CycleCursor(doc, st, a, dumps, env) == CycleProcessed(st, a, DumpOf(doc, a, dumps, env))

\* The listings were processed into st: an exception breaks the loop,
\* otherwise the cursor update decides.
CycleListed(doc, st, dumps, env) ==
    IF st.raised THEN CycleAborted(st)
    ELSE CycleCursor(doc, st, AfterPage(NextCursor(doc), max_id, st.new_count), dumps, env)

CyclePage(doc, page_listings, withPost, dumps, env) ==
    IF page_listings = <<>> THEN CycleEmpty(EmptyPage(consecutive_empty))
    ELSE CycleListed(doc, ProcessListings(page_listings, listing_links, seen_ids, withPost),
                     dumps, env)

CycleDoc(doc, withPost, dumps, env) ==
    CyclePage(doc, extract_listings(doc, 0), withPost, dumps, env)

\* CycleFsError going on with the same page
CycleFsErrorSamePage(fsContinues) ==
    IF fsContinues THEN [Untouched("fs") EXCEPT !.brk = FALSE, !.sleep = TRUE]
    ELSE Untouched("failed")

\* except Exception: an error naming the file system lets the first loop go
\* on: page_num += 1; time.sleep(1); continue
CycleFsError(fsContinues) ==
    IF fsContinues THEN [Untouched("fs") EXCEPT !.pn = @ + 1, !.brk = FALSE, !.sleep = TRUE]
    ELSE Untouched("failed")

\* Cycle going on to the next page after a non-2xx status
CycleStatusContinues(res, first, withPost, env) ==
    IF res.kind = "status" THEN [Untouched("failed") EXCEPT !.pn = @ + 1, !.brk = FALSE]
    ELSE IF res.kind = "raise" THEN Untouched("failed")
    ELSE IF res.kind = "raise_fs" THEN CycleFsError(first)
    ELSE CycleDoc(Docs[res.doc], withPost, first, env)

\* One pass of a loop body for fetch result res: what it leaves and whether
\* it breaks.  first: the body of the first loop, which alone writes the
\* debug dump and goes on after an exception naming the file system.
\* withPost: which id lookup feeds seen_ids.
Cycle(res, first, withPost, env) ==
    IF res.kind \in {"status", "raise"} THEN Untouched("failed")
    ELSE IF res.kind = "raise_fs" THEN CycleFsError(first)
    ELSE CycleDoc(Docs[res.doc], withPost, first, env)

\* The environments an iteration can meet: it is read for the dump only
EnvsRead(first) == IF first /\ page_num = 1 THEN DumpEnvs ELSE {"unread"}

IterateApply(phase, exit, res, c, sent) ==
    /\ listing_links' = c.links
    /\ seen_ids' = c.seen
    /\ max_id' = c.cur
    /\ consecutive_empty' = c.ce
    /\ page_num' = c.pn
    /\ pc' = IF ~c.brk /\ LoopGuard(c.pn) THEN phase ELSE exit
    /\ last' = Exchange(phase, page_num, sent, res, c)
    /\ e2e' = E2eNext(e2e, sent, res)
    /\ exhausted_links' = IF c.result = "empty" /\ c.brk THEN listing_links ELSE exhausted_links

\* The state change of one loop iteration, shared by the two loops
Iterate(phase, exit, first, withPost) ==
    /\ \E res \in FetchResults : \E env \in EnvsRead(first) :
        IterateApply(phase, exit, res, Cycle(res, first, withPost, env),
                     RequestMaxId(max_id, page_group_id, page_num))
    /\ prev' = last
    /\ n_requests' = n_requests + 1
    /\ UNCHANGED <<scenario, max_pages, page_group_id>>
    /\ UNCHANGED s3_vars

\* One iteration of the paging loop
PageStep ==
    /\ pc = "loop"
    /\ Iterate("loop", "fallback", TRUE, FALSE)

\* AppendAll without the membership test
AppendAllUnchecked(links, urls, i) ==
    links \o [k \in 1..Len(urls) |-> Absolutize(urls[k])]

RECURSIVE AppendAll(_, _, _)
\* for url in all_listing_urls: absolutize, append when new
AppendAll(links, urls, i) ==
    IF i > Len(urls) THEN links
    ELSE AppendAll(AppendLink(links, Absolutize(urls[i])), urls, i + 1)

\* FallbackActive whatever the number of links
FallbackAlways(links) == TRUE

\* len(listing_links) < 50
FallbackActive(links) == Len(links) < FallbackThreshold

\* NeedsTokens without the test for a link
NeedsTokensNoLinks(cur, pgid, links) == ~Truthy(cur) /\ ~Truthy(pgid)

\* not max_id and not page_group_id and len(listing_links) > 0
NeedsTokens(cur, pgid, links) == ~Truthy(cur) /\ ~Truthy(pgid) /\ Len(links) > 0

FallbackApply(scanned, retry) ==
    /\ listing_links' = scanned
    /\ page_group_id' = IF retry /\ Truthy(Html.text_pgid) THEN Html.text_pgid
                        ELSE page_group_id
    /\ pc' = IF retry THEN "retry" ELSE "done"

FallbackScanned(scanned) ==
    FallbackApply(scanned, NeedsTokens(max_id, page_group_id, scanned))

\* The HTML fallback scan and the page_group_id search over the page text
HtmlFallback ==
    /\ pc = "fallback"
    /\ IF FallbackActive(listing_links)
       THEN FallbackScanned(AppendAll(listing_links, Html.urls, 1))
       ELSE FallbackApply(listing_links, FALSE)
    /\ UNCHANGED <<scenario, max_pages, seen_ids, max_id, page_num, consecutive_empty,
                   n_requests, last, prev, e2e, exhausted_links>>
    /\ UNCHANGED s3_vars

\* RestartGuard without the comparison with max_pages
RestartGuardAnyPage(cur, pgid, pn) == Truthy(cur) \/ Truthy(pgid)

\* (max_id or page_group_id) and page_num <= max_pages
RestartGuard(cur, pgid, pn) == (Truthy(cur) \/ Truthy(pgid)) /\ pn <= max_pages

RetryApply(res, cur, go) ==
    /\ max_id' = cur
    /\ page_num' = IF go THEN 2 ELSE page_num
    /\ consecutive_empty' = IF go THEN 0 ELSE consecutive_empty
    /\ pc' = IF go /\ LoopGuard(2) THEN "restart" ELSE "done"
    /\ last' = Exchange("retry", 1, Null, res,
                        Untouched(IF res.kind = "ok" THEN "unmined" ELSE "failed"))

RetryWith(res, cur) == RetryApply(res, cur, RestartGuard(cur, page_group_id, page_num))

\* The fallback API call for a cursor, and the set-up of the restart loop
RetryCall ==
    /\ pc = "retry"
    /\ \E res \in FetchResults :
        RetryWith(res, IF res.kind = "ok" THEN find_max_id_retry(Docs[res.doc]) ELSE max_id)
    /\ prev' = last
    /\ n_requests' = n_requests + 1
    /\ e2e' = IF e2e = 3 THEN 3 ELSE -1
    /\ UNCHANGED <<scenario, max_pages, listing_links, seen_ids, page_group_id, exhausted_links>>
    /\ UNCHANGED s3_vars

\* One iteration of the restarted loop
RestartStep ==
    /\ pc = "restart"
    /\ Iterate("restart", "done", FALSE, TRUE)

\* return listing_links: what the call hands back when its last loop stopped
\* for the given reason
Returned(links, stopped) == links

Next ==
    \/ FetchCloset
    \/ InitialApiCall
    \/ PageStep
    \/ HtmlFallback
    \/ RetryCall
    \/ RestartStep

Spec == Init /\ [][Next]_vars

\* Every HTTP call is made with timeout=10 and so returns or fails, and the
\* steps between the calls are straight-line code: a step that can be taken
\* is taken.  That is weak fairness of each action; for the two loop
\* actions it is written with their enabledness spelled out (an iteration
\* can be taken exactly while the call stands in that loop).
SpecLive ==
    /\ Spec
    /\ WF_vars(FetchCloset)
    /\ WF_vars(InitialApiCall)
    /\ WF_vars(HtmlFallback)
    /\ WF_vars(RetryCall)
    /\ ([]<>(pc # "loop") \/ []<><<PageStep>>_vars)
    /\ ([]<>(pc # "restart") \/ []<><<RestartStep>>_vars)

(***************************************************************************)
(* The storage run: lambda_handler, the constructor's storage set-up,      *)
(* scrape_listings_with_s3, generate_slug and get_existing_slugs_from_s3.  *)
(* get_listing_links enters as its result: a list of links or an exception.*)
(***************************************************************************)
\* slug[:100]
SlugCap == 100
HexChars == {"0","1","2","3","4","5","6","7","8","9","a","b","c","d","e","f"}
SlugChars == Lower \cup Upper \cup Range(Digits) \cup {"_", "-"}

\* the smallest index of s holding a character of cs, Len(s) + 1 when none
FirstIn(s, cs) ==
    IF \E i \in DOMAIN s : s[i] \in cs
    THEN CHOOSE i \in DOMAIN s : s[i] \in cs /\ \A j \in 1..(i - 1) : s[j] \notin cs
    ELSE Len(s) + 1
Drop(s, n) == SubSeq(s, n + 1, Len(s))
\* s[:n]
Take(s, n) == SubSeq(s, 1, IF Len(s) < n THEN Len(s) ELSE n)

\* urlparse(listing_url).path for http(s) URLs and scheme-less paths: the
\* authority after "//" is left out, the query and the fragment are cut off
AfterAuthority(url) ==
    IF StartsWith(url, <<"h","t","t","p","s",":","/","/">>)
    THEN Drop(Drop(url, 8), FirstIn(Drop(url, 8), {"/", "?", "#"}) - 1)
    ELSE IF StartsWith(url, <<"h","t","t","p",":","/","/">>)
    THEN Drop(Drop(url, 7), FirstIn(Drop(url, 7), {"/", "?", "#"}) - 1)
    ELSE url
UrlPath(url) == SubSeq(AfterAuthority(url), 1, FirstIn(AfterAuthority(url), {"?", "#"}) - 1)

\* str.strip('/')
RECURSIVE StripSlashes(_)
StripSlashes(s) ==
    IF s # <<>> /\ Head(s) = "/" THEN StripSlashes(Tail(s))
    ELSE IF s # <<>> /\ s[Len(s)] = "/" THEN StripSlashes(SubSeq(s, 1, Len(s) - 1))
    ELSE s

\* re.sub(r'[^a-zA-Z0-9_-]', '_', path)
Sanitized(s) == [i \in DOMAIN s |-> IF s[i] \in SlugChars THEN s[i] ELSE "_"]

\* the starts of the matches of -([a-f0-9]+)$ : a hyphen followed by
\* hexadecimal characters up to the end
HexTails(url) ==
    {i \in DOMAIN url : /\ url[i] = "-"
                        /\ i < Len(url)
                        /\ \A k \in (i + 1)..Len(url) : url[k] \in HexChars}

\* generate_slug: the hexadecimal tail after the hyphen of the leftmost
\* match, else the sanitized path cut to 100 characters
generate_slug(url) ==
    IF HexTails(url) # {}
    THEN Drop(url, CHOOSE i \in HexTails(url) : \A j \in HexTails(url) : i <= j)
    ELSE Take(Sanitized(StripSlashes(UrlPath(url))), SlugCap)

\* str.endswith
EndsWith(s, suf) == Len(s) >= Len(suf) /\ SubSeq(s, Len(s) - Len(suf) + 1, Len(s)) = suf
\* str.replace(pat, "")
RECURSIVE RemoveAll(_, _)
RemoveAll(s, pat) ==
    IF Len(s) < Len(pat) THEN s
    ELSE IF SubSeq(s, 1, Len(pat)) = pat THEN RemoveAll(Drop(s, Len(pat)), pat)
    ELSE <<Head(s)>> \o RemoveAll(Tail(s), pat)

\* self.s3_prefix of the runs
S3Prefix == <<"u">>
JsonExt == <<".","j","s","o","n">>
\* key.replace(f"{self.s3_prefix}/", "").replace(".json", "")
SlugOfKey(key) == RemoveAll(RemoveAll(key, S3Prefix \o <<"/">>), JsonExt)
\* get_existing_slugs_from_s3 over the keys the pages delivered
SlugsOfKeys(keys) == {SlugOfKey(k) : k \in {x \in keys : EndsWith(x, JsonExt)}}

\* What get_listing_links can hand to the storage run
ListingUrl(tail) == Origin \o ListingDir \o tail
FoundLinks ==
    << <<>>,
       << ListingUrl(<<"N","i","k","e","-","A","i","r","-","5","f","3","a">>),
          ListingUrl(<<"h","1">>),
          ListingUrl(<<"R","e","d","-","H","a","t","-","1","2">>) >>,
       << ListingUrl(<<"a","-","5","f","3","a">>),
          ListingUrl(<<"b","-","5","f","3","a">>),
          <<"h","t","t","p",":","/","/","x","/","1","?","q","=","2">>,
          ListingUrl(<<"D","r","e","s","s","-","x","y","z">>) >> >>
\* The keys the bucket can hold under the prefix when the run starts
StoredKeys ==
    << {},
       { <<"u","/","5","f","3","a",".","j","s","o","n">>,
         <<"u","/","i","n","d","e","x",".","h","t","m","l">> },
       { <<"u","/","5","f","3","a",".","j","s","o","n">>,
         <<"u","/","l","i","s","t","i","n","g","_","h","1",".","j","s","o","n">>,
         <<"u","/","1","2",".","j","s","o","n">> } >>

\* An entry point with its inputs (lambda_handler, scrape_listings_with_s3
\* called directly, or scrape_listings, which uses no bucket); the first
\* machine stands still
InitS3 ==
    /\ job \in [caller : {"lambda", "direct", "plain"}, bucket : BOOLEAN, incremental : BOOLEAN,
                found : DOMAIN FoundLinks, stored : {StoredKeys[k] : k \in DOMAIN StoredKeys}]
    /\ job.caller = "plain" => (~job.bucket /\ ~job.incremental /\ job.stored = {})
    /\ s3_pc = IF job.caller = "lambda" THEN "handler" ELSE "construct"
    /\ s3_bucket = FALSE
    /\ existing_slugs = {}
    /\ listing_urls = <<>>
    /\ link_i = 0
    /\ stats = NoStats
    /\ calls = NoCalls
    /\ outcome = NoOutcome
    /\ pc = "idle"
    /\ scenario = 1
    /\ max_pages = 0
    /\ listing_links = <<>>
    /\ seen_ids = {}
    /\ max_id = Null
    /\ page_group_id = Null
    /\ page_num = 0
    /\ consecutive_empty = 0
    /\ n_requests = 0
    /\ last = NoExchange
    /\ prev = NoExchange
    /\ e2e = 0
    /\ exhausted_links = <<>>

\* Handed letting the exception through lambda_handler
HandedUncaught(kind, error, st) ==
    IF job.caller = "lambda" /\ kind = "return"
    THEN [kind |-> "status", status |-> 200, error |-> error, stats |-> st]
    ELSE [kind |-> kind, status |-> 0, error |-> error, stats |-> st]

\* How a finished or failed call leaves the entry point: lambda_handler
\* turns a return into status 200 and an exception into status 500
Handed(kind, error, st) ==
    IF job.caller = "lambda"
    THEN [kind |-> "status", status |-> IF kind = "return" THEN 200 ELSE 500,
          error |-> error, stats |-> st]
    ELSE [kind |-> kind, status |-> 0, error |-> error, stats |-> st]
EndOf(kind) == IF job.caller = "lambda" \/ kind = "return" THEN "returned" ELSE "raised"

\* lambda_handler up to the construction: no bucket in the event or the
\* environment is answered with status 400
LambdaHandler ==
    /\ s3_pc = "handler"
    /\ IF ~job.bucket
       THEN /\ outcome' = [kind |-> "status", status |-> 400,
                           error |-> "S3 bucket not specified", stats |-> NoStats]
            /\ s3_pc' = "returned"
       ELSE /\ outcome' = outcome
            /\ s3_pc' = "construct"
    /\ UNCHANGED <<job, s3_bucket, existing_slugs, listing_urls, link_i, stats, calls>>
    /\ UNCHANGED gll_vars

\* __init__: the bucket of the argument or the environment, dropped again
\* when boto3 is missing or the client cannot be made
Construct ==
    /\ s3_pc = "construct"
    /\ \E client_ok \in BOOLEAN : s3_bucket' = (job.bucket /\ client_ok)
    /\ s3_pc' = IF job.caller = "plain" THEN "plain" ELSE "scrape"
    /\ UNCHANGED <<job, existing_slugs, listing_urls, link_i, stats, calls, outcome>>
    /\ UNCHANGED gll_vars

\* ScrapeStart listing the bucket before it looks at the configuration
ScrapeStartListsFirst ==
    /\ s3_pc = "scrape"
    /\ calls' = [calls EXCEPT !.s3_list = @ + 1]
    /\ existing_slugs' = {}
    /\ IF ~s3_bucket
       THEN /\ outcome' = Handed("raise", "ValueError", NoStats)
            /\ s3_pc' = EndOf("raise")
       ELSE /\ outcome' = outcome
            /\ s3_pc' = "links"
    /\ UNCHANGED <<job, s3_bucket, listing_urls, link_i, stats>>
    /\ UNCHANGED gll_vars

\* scrape_listings_with_s3 up to the existing slugs: ValueError without a
\* bucket; with incremental the bucket is listed, and a listing that fails
\* on the way keeps the slugs of the pages read before
ScrapeStart ==
    /\ s3_pc = "scrape"
    /\ IF ~s3_bucket
       THEN /\ outcome' = Handed("raise", "ValueError", NoStats)
            /\ s3_pc' = EndOf("raise")
            /\ UNCHANGED <<existing_slugs, calls>>
       ELSE /\ outcome' = outcome
            /\ s3_pc' = "links"
            /\ IF job.incremental
               THEN /\ \E read \in SUBSET job.stored : existing_slugs' = SlugsOfKeys(read)
                    /\ calls' = [calls EXCEPT !.s3_list = @ + 1]
               ELSE UNCHANGED <<existing_slugs, calls>>
    /\ UNCHANGED <<job, s3_bucket, listing_urls, link_i, stats>>
    /\ UNCHANGED gll_vars

\* listing_urls = self.get_listing_links(...): an exception of the closet
\* fetch passes through; no link ends the run with empty statistics
FindLinks ==
    /\ s3_pc = "links"
    /\ calls' = [calls EXCEPT !.links = @ + 1]
    /\ \E raised \in BOOLEAN :
        IF raised
        THEN /\ outcome' = Handed("raise", "Exception", NoStats)
             /\ s3_pc' = EndOf("raise")
             /\ UNCHANGED <<listing_urls, link_i>>
        ELSE /\ listing_urls' = FoundLinks[job.found]
             /\ link_i' = 1
             /\ IF FoundLinks[job.found] = <<>>
                THEN outcome' = Handed("return", "none", NoStats) /\ s3_pc' = "returned"
                ELSE outcome' = outcome /\ s3_pc' = "each"
    /\ UNCHANGED <<job, s3_bucket, existing_slugs, stats>>
    /\ UNCHANGED gll_vars

\* SkipExisting never skipping
SkipNever(incremental, slug, existing) == FALSE

\* if incremental and slug in existing_slugs
SkipExisting(incremental, slug, existing) == incremental /\ slug \in existing

\* Saved judging a listing by the keys in the bucket, whatever the run read
SavedAgainstBucket(st, slug) ==
    [st EXCEPT !.total = @ + 1,
               !.updated = IF slug \in SlugsOfKeys(job.stored) THEN @ + 1 ELSE @,
               !.new = IF slug \in SlugsOfKeys(job.stored) THEN @ ELSE @ + 1]

\* the statistics after a listing was saved
Saved(st, slug) ==
    [st EXCEPT !.total = @ + 1,
               !.updated = IF slug \in existing_slugs THEN @ + 1 ELSE @,
               !.new = IF slug \in existing_slugs THEN @ ELSE @ + 1]

\* One listing that is not skipped: the page is fetched; when that gave a
\* page the listing is put to the bucket; a put that worked is counted
ProcessLink(slug, fetched, put_ok) ==
    /\ calls' = [calls EXCEPT !.http = @ + 1, !.s3_put = IF fetched THEN @ + 1 ELSE @,
                              !.visited = Append(@, listing_urls[link_i]),
                              !.kept = IF fetched /\ put_ok
                                       THEN Append(@, listing_urls[link_i]) ELSE @]
    /\ stats' = IF fetched /\ put_ok THEN Saved(stats, slug) ELSE stats

EachSlug(slug) ==
    IF SkipExisting(job.incremental, slug, existing_slugs)
    THEN /\ stats' = [stats EXCEPT !.skipped = @ + 1]
         /\ calls' = calls
    ELSE \E fetched \in BOOLEAN : \E put_ok \in BOOLEAN : ProcessLink(slug, fetched, put_ok)

\* EachListing leaving the loop at a listing that was not saved
EachListingStopsOnFailure ==
    /\ s3_pc = "each"
    /\ EachSlug(generate_slug(listing_urls[link_i]))
    /\ link_i' = link_i + 1
    /\ s3_pc' = IF link_i = Len(listing_urls) \/ stats' = stats THEN "final" ELSE "each"
    /\ UNCHANGED <<job, s3_bucket, existing_slugs, listing_urls, outcome>>
    /\ UNCHANGED gll_vars

\* One pass of `for i, listing_url in enumerate(listing_urls, 1)`
EachListing ==
    /\ s3_pc = "each"
    /\ EachSlug(generate_slug(listing_urls[link_i]))
    /\ link_i' = link_i + 1
    /\ s3_pc' = IF link_i = Len(listing_urls) THEN "final" ELSE "each"
    /\ UNCHANGED <<job, s3_bucket, existing_slugs, listing_urls, outcome>>
    /\ UNCHANGED gll_vars

\* The final count, the index page and the return of the statistics
Finalize ==
    /\ s3_pc = "final"
    /\ calls' = [calls EXCEPT !.s3_list = @ + 1, !.s3_put = @ + 1]
    /\ outcome' = Handed("return", "none", stats)
    /\ s3_pc' = "returned"
    /\ UNCHANGED <<job, s3_bucket, existing_slugs, listing_urls, link_i, stats>>
    /\ UNCHANGED gll_vars

\* scrape_listings up to the loop: an exception of the closet fetch passes
\* through; no link returns the empty list
ScrapeListingsStart ==
    /\ s3_pc = "plain"
    /\ calls' = [calls EXCEPT !.links = @ + 1]
    /\ \E raised \in BOOLEAN :
        IF raised
        THEN /\ outcome' = Handed("raise", "Exception", NoStats)
             /\ s3_pc' = EndOf("raise")
             /\ UNCHANGED <<listing_urls, link_i>>
        ELSE /\ listing_urls' = FoundLinks[job.found]
             /\ link_i' = 1
             /\ IF FoundLinks[job.found] = <<>>
                THEN outcome' = Handed("return", "none", NoStats) /\ s3_pc' = "returned"
                ELSE outcome' = outcome /\ s3_pc' = "plain_each"
    /\ UNCHANGED <<job, s3_bucket, existing_slugs, stats>>
    /\ UNCHANGED gll_vars

\* One listing of scrape_listings: the page is fetched; an info that is
\* not empty (with visit_details False: a page with a title) is appended
DetailOf(url, fetched) ==
    calls' = [calls EXCEPT !.http = @ + 1,
                           !.visited = Append(@, url),
                           !.kept = IF fetched THEN Append(@, url) ELSE @]

\* One pass of the loop of scrape_listings, and the return of the list
\* after the last one
ScrapeListingsEach ==
    /\ s3_pc = "plain_each"
    /\ \E fetched \in BOOLEAN : DetailOf(listing_urls[link_i], fetched)
    /\ link_i' = link_i + 1
    /\ IF link_i = Len(listing_urls)
       THEN outcome' = Handed("return", "none", NoStats) /\ s3_pc' = "returned"
       ELSE outcome' = outcome /\ s3_pc' = "plain_each"
    /\ UNCHANGED <<job, s3_bucket, existing_slugs, listing_urls, stats>>
    /\ UNCHANGED gll_vars

NextS3 ==
    \/ LambdaHandler
    \/ Construct
    \/ ScrapeStart
    \/ FindLinks
    \/ EachListing
    \/ Finalize
    \/ ScrapeListingsStart
    \/ ScrapeListingsEach

SpecS3 == InitS3 /\ [][NextS3]_vars

(***************************************************************************)
(* Properties.                                                             *)
(***************************************************************************)
IsPrefix(s, t) == Len(s) <= Len(t) /\ SubSeq(t, 1, Len(s)) = s
NoDuplicates(s) == Cardinality(Range(s)) = Len(s)
InLoop(x) == x.phase \in {"loop", "restart"}
\* the document of an exchange that was answered with one
DocOf(x) == Docs[x.doc]
\* the exchange had its listings run through the per-listing loop
Listed(x) == x.result \in {"mined", "processed", "aborted"}

\* C1: End-to-end run.  When no page_group_id is in the closet HTML, the
\* first request is answered with 48 distinct listings and next_max_id X, the
\* request carrying X with 48 further listings and next_max_id Y, and the
\* request carrying Y with 10 further listings and no cursor, then exactly
\* these three API requests are issued, the loop has stopped after the third,
\* and the list that is returned holds exactly 106 links, none twice.
C1_EndToEnd ==
    e2e = 3 =>
        /\ n_requests = 3
        /\ pc \in {"fallback", "done"}
        /\ Len(listing_links) = 2 * PageSize + 10
        /\ NoDuplicates(listing_links)

C1_Witness == e2e = 3 /\ pc = "done" /\ last.sent = CursorY /\ prev.sent = CursorX

\* C2: Short-page termination.  A successfully fetched page of a loop that
\* adds fewer than 48 new links ends that loop right after the page (no
\* further request in that loop), also when the response holds a next_max_id
\* different from the cursor just used.
C2_ShortPageStops ==
    (InLoop(last) /\ last.result = "processed" /\ last.new_count < PageSize)
        => pc # last.phase

\* C3: Exhaustion.  When two consecutive page fetches of a loop each yield
\* zero extracted listings, the loop stops after the second without another
\* request in that loop, and every link accumulated before the two pages
\* stays in the list up to and including the return.
C3_TwoEmptyPagesStop ==
    /\ (InLoop(last) /\ prev.phase = last.phase
        /\ last.result = "empty" /\ prev.result = "empty")
            => /\ pc # last.phase
               /\ exhausted_links = prev.before
    /\ IsPrefix(exhausted_links, listing_links)

C3_Witness ==
    /\ InLoop(last) /\ prev.phase = last.phase
    /\ last.result = "empty" /\ prev.result = "empty"
    /\ prev.before # <<>>
    /\ pc = "done"

\* C4: Page ceiling.  One call requests at most max_pages listing pages from
\* the API, the initial call and the fallback and restart requests included.
C4_PageCeiling == n_requests <= max_pages

\* C5: Deduplication invariant.  At every point of a run the accumulated
\* link list holds no URL string twice.
C5_NoDuplicateLinks == NoDuplicates(listing_links)

C5_Witness ==
    /\ pc = "done"
    /\ Len(listing_links) > 1
    /\ \E i \in DOMAIN Html.urls : \E j \in DOMAIN Html.urls : i # j /\ Html.urls[i] = Html.urls[j]
    /\ Absolutize(Html.urls[1]) \in Range(listing_links)

\* C6: Idempotence of extraction.  Processing the response document of the
\* last exchange a second time, from the links the first processing left,
\* appends nothing.
C6_ExtractionIdempotent ==
    Listed(last) =>
        ProcessListings(extract_listings(DocOf(last), 0), listing_links, seen_ids, TRUE).links
            = listing_links

C6_Witness == last.result = "processed" /\ last.new_count > 1 /\ pc = last.phase

\* C7: Append-only discovery order.  Every step leaves the previous link
\* list as a prefix of the new one.
C7_AppendOnly == [][IsPrefix(listing_links, listing_links')]_vars

C7_Witness ==
    /\ InLoop(last) /\ last.new_count > 0 /\ last.before # <<>>
    /\ Len(listing_links) > Len(last.before)
    /\ pc = "done"
\* base64 decoding of an unpadded text, written from the alphabet alone
B64Index(c) == (CHOOSE i \in DOMAIN B64Alphabet : B64Alphabet[i] = c) - 1
RECURSIVE B64DecodeUnpadded(_)
B64DecodeUnpadded(cs) ==
    IF Len(cs) < 2 THEN <<>>
    ELSE LET n == Len(cs)
             v == B64Index(cs[1]) * 262144 + B64Index(cs[2]) * 4096
                  + (IF n >= 3 THEN B64Index(cs[3]) * 64 ELSE 0)
                  + (IF n >= 4 THEN B64Index(cs[4]) ELSE 0)
         IN  IF n = 2 THEN <<v \div 65536>>
             ELSE IF n = 3 THEN <<v \div 65536, (v \div 256) % 256>>
             ELSE <<v \div 65536, (v \div 256) % 256, v % 256>> \o B64DecodeUnpadded(SubSeq(cs, 5, n))
AsText(bytes) == [i \in DOMAIN bytes |-> AsciiPrintable[bytes[i] - 31]]
\* the text a synthesized cursor decodes to, the marker stripped
DecodedCursor(c) == AsText(B64DecodeUnpadded(SubSeq(c, Len(EncMarker) + 1, Len(c))))
\* {"max_ids": [48*(n-1)], "page_num": n, "page_group_id": "g"} as JSON text
CursorObjectText(g, n) ==
    <<"{","\"","m","a","x","_","i","d","s","\"",":"," ","[">> \o Dec(48 * (n - 1)) \o <<"]",","," ","\"","p","a","g","e","_","n","u","m","\"",":"," ">> \o Dec(n) \o <<","," ","\"","p","a","g","e","_","g","r","o","u","p","_","i","d","\"",":"," ","\"">> \o g \o <<"\"","}">>
\* the request of the last exchange carried a synthesized cursor
SentSynthesized == last.sent.t = "str" /\ StartsWith(last.sent.v, EncMarker)

\* C8: Fallback-cursor encoding.  A synthesized cursor for page n > 1 and
\* page_group_id g is ENC_ followed by the unpadded base64 of the JSON object
\* with max_ids [48*(n-1)], page_num n and page_group_id g.
C8_FallbackCursorEncoding ==
    SentSynthesized =>
        /\ last.page > 1
        /\ page_group_id.t = "str"
        /\ "=" \notin Range(last.sent.v)
        /\ DecodedCursor(last.sent.v) = CursorObjectText(page_group_id.v, last.page)

\* page 3 with page_group_id "abc": max_ids [96]
C8_Witness ==
    /\ SentSynthesized
    /\ last.page = 3
    /\ page_group_id = GroupAbc
    /\ DecodedCursor(last.sent.v) = <<"{","\"","m","a","x","_","i","d","s","\"",":"," ","[","9","6","]",","," ","\"","p","a","g","e","_","n","u","m","\"",":"," ","3",","," ","\"","p","a","g","e","_","g","r","o","u","p","_","i","d","\"",":"," ","\"","a","b","c","\"","}">>

ArrayKeys == <<"posts", "data", "listings">>
\* the lists stored under posts, data or listings that can be reached within
\* the depth limit without entering a metadata, facets or summaries subtree
RECURSIVE ReachableArrays(_, _)
ReachableArrays(x, depth) ==
    IF depth > DepthLimit THEN {}
    ELSE IF x.t = "obj" THEN
        {x.v[i][2].v : i \in {j \in DOMAIN x.v : x.v[j][1] \in Range(ArrayKeys) /\ x.v[j][2].t = "arr"}}
        \cup UNION {ReachableArrays(x.v[i][2], depth + 1) :
                        i \in {j \in DOMAIN x.v : x.v[j][1] \notin SkippedKeys}}
    ELSE IF x.t = "arr" THEN UNION {ReachableArrays(x.v[i], depth + 1) : i \in DOMAIN x.v}
    ELSE {}
\* the list under the first of posts, data, listings that the mapping holds
FirstTopArray(doc) ==
    Get(doc, ArrayKeys[CHOOSE i \in DOMAIN ArrayKeys :
                          /\ HasListUnder(doc, ArrayKeys[i])
                          /\ \A j \in 1..(i - 1) : ~HasListUnder(doc, ArrayKeys[j])]).v
HasTopArray(doc) == doc.t = "obj" /\ \E i \in DOMAIN ArrayKeys : HasListUnder(doc, ArrayKeys[i])

HasScheme(v) ==
    \/ StartsWith(v, <<"h","t","t","p",":","/","/">>)
    \/ StartsWith(v, <<"h","t","t","p","s",":","/","/">>)
SchemeLink(v) == IF HasScheme(v) THEN v ELSE <<"h","t","t","p","s",":","/","/","p","o","s","h","m","a","r","k",".","c","o","m">> \o v
\* the same with the test the code makes: a value that starts with http
HttpLink(v) == IF Len(v) >= 4 /\ SubSeq(v, 1, 4) = <<"h","t","t","p">> THEN v ELSE <<"h","t","t","p","s",":","/","/","p","o","s","h","m","a","r","k",".","c","o","m">> \o v
ListingsOf(x) == extract_listings(DocOf(x), 0)

Synthesized(l) ==
    /\ l.t = "obj"
    /\ ~HasKey(l, "canonical_path") /\ ~HasKey(l, "path") /\ ~HasKey(l, "url")
    /\ HasKey(l, "title") /\ Get(l, "title").t = "str"
    /\ Truthy(ListingId(l))
AlnumSpaceHyphen(c) == c \in Lower \cup Upper \cup Range(Digits) \cup {" ", "-"}
\* the slug as the claim words it: lowercased, everything but alphanumerics,
\* spaces and hyphens removed, spaces turned into hyphens
SlugAsStated(title) ==
    LET kept == SelectSeq([i \in DOMAIN title |-> LowerOf(title[i])], AlnumSpaceHyphen)
    IN  [i \in DOMAIN kept |-> IF kept[i] = " " THEN "-" ELSE kept[i]]
WordSpaceHyphen(c) == c \in Lower \cup Upper \cup Range(Digits) \cup {"_", "-", " ", "\t", "\n"}
\* s without its leading and trailing whitespace
Trimmed(s) ==
    LET solid == {i \in DOMAIN s : s[i] \notin {" ", "\t", "\n"}}
    IN  IF solid = {} THEN <<>>
        ELSE SubSeq(s, CHOOSE i \in solid : \A j \in solid : i <= j,
                       CHOOSE i \in solid : \A j \in solid : i >= j)
\* the slug with the case kept: everything but letters, digits, underscores,
\* whitespace and hyphens removed, the outer whitespace trimmed, every
\* remaining space turned into a hyphen
SlugCaseKept(title) ==
    LET kept == Trimmed(SelectSeq(title, WordSpaceHyphen))
    IN  [i \in DOMAIN kept |-> IF kept[i] = " " THEN "-" ELSE kept[i]]
SynthesizedLink(slug, lid) ==
    <<"h","t","t","p","s",":","/","/","p","o","s","h","m","a","r","k",".","c","o","m","/","l","i","s","t","i","n","g","/">>
        \o slug \o <<"-">> \o PyStr(lid)

\* C11 as stated: every listing with no canonical_path, path or url key but
\* with a title and an id gets the path /listing/<slug(title)>-<id>, slug
\* lowercasing the title, removing what is not alphanumeric, space or hyphen
\* and replacing spaces by hyphens.
C11_SlugLowercased ==
    Listed(last) =>
        \A i \in 1..last.handled :
            Synthesized(ListingsOf(last)[i])
                => SynthesizedLink(SlugAsStated(Get(ListingsOf(last)[i], "title").v),
                                   ListingId(ListingsOf(last)[i])) \in Range(listing_links)

\* C11 (amended): such a listing gets /listing/<slug(title)>-<id> where slug
\* keeps the case, removes every character that is no letter, digit,
\* underscore, whitespace or hyphen, trims the outer whitespace and replaces
\* each remaining space by a hyphen; the id is the first truthy one of id,
\* listing_id and post_id.
C11_SlugPath ==
    Listed(last) =>
        \A i \in 1..last.handled :
            Synthesized(ListingsOf(last)[i])
                => SynthesizedLink(SlugCaseKept(Get(ListingsOf(last)[i], "title").v),
                                   ListingId(ListingsOf(last)[i])) \in Range(listing_links)

C11_Witness ==
    /\ last.result \in {"mined", "processed"}
    /\ DocOf(last) = SlugDoc
    /\ last.handled = 5
    /\ <<"h","t","t","p","s",":","/","/","p","o","s","h","m","a","r","k",".","c","o","m","/","l","i","s","t","i","n","g","/","N","i","k","e","-","A","i","r","-","9">> \in Range(listing_links)
    /\ Len(listing_links) = 4

\* the ways a page request fails: non-2xx status, an exception of the
\* request or of the decoding, an exception whose message names the file
\* system (a connection refused with "[Errno 13] Permission denied")
FailKinds == {"status", "raise", "raise_fs"}

\* C12: Fetch failure in the paging loop.  A non-2xx status, a network error
\* or an undecodable body on a page request ends the loop at once and leaves
\* the cursor and the accumulated links as they were.
C12_FetchFailureStops ==
    (InLoop(last) /\ last.kind \in FailKinds)
        => /\ pc # last.phase
           /\ max_id = last.cur
           /\ listing_links = last.before

C14_NoExceptionEscapes == pc # "raised"

\* C15: A failure to write the first-page debug dump never ends the paging
\* loop: the page counter is incremented and the loop goes on to the next
\* page when the ceiling allows.
C15_DumpFailureContinues ==
    last.dump \in {"raised", "swallowed", "tmp"}
        => /\ last.result = "processed"
           /\ page_num = last.page + 1
           /\ LoopGuard(page_num) => pc = "loop"

\* C17: Politeness delay.  Between any two consecutive API page requests of
\* a run a delay is executed.
C17_DelayBetweenRequests == n_requests >= 2 => prev.sleep

\* C19: Uniqueness by id.  A listing whose id was seen earlier adds no link,
\* also when its resolved URL differs: of two listings of a processed page
\* that carry the same id, only the first has its own link in the list.
C19_UniqueById ==
    Listed(last) =>
        \A i \in 1..last.handled : \A j \in 1..last.handled :
            (/\ i < j
             /\ ListingsOf(last)[i].t = "obj" /\ ListingsOf(last)[j].t = "obj"
             /\ Truthy(ListingId(ListingsOf(last)[i]))
             /\ ListingId(ListingsOf(last)[i]) = ListingId(ListingsOf(last)[j])
             /\ ResolvePath(ListingsOf(last)[i]).path.t = "str"
             /\ ResolvePath(ListingsOf(last)[j]).path.t = "str"
             /\ ResolvePath(ListingsOf(last)[i]).path # ResolvePath(ListingsOf(last)[j]).path)
                => Absolutize(ResolvePath(ListingsOf(last)[j]).path.v) \notin Range(listing_links)

\* the last loop of the finished call stopped because the page counter went
\* past max_pages
CeilingStopped == pc = "done" /\ InLoop(last) /\ page_num > max_pages

\* C20: Ceiling-stopped is reported.  What the call hands back when its loop
\* stopped on the ceiling differs from what it hands back when the same
\* links were gathered and the loop stopped by exhaustion.
C20_CeilingReported ==
    CeilingStopped => Returned(listing_links, "ceiling") # Returned(listing_links, "exhausted")

\* C16: Misconfiguration fails fast.  A storage run without a configured
\* bucket makes no network call: lambda_handler answers status 400 when
\* neither the event nor the environment names a bucket, and
\* scrape_listings_with_s3 raises the configuration error when the scraper
\* holds no bucket (for lambda_handler's caller that is status 500).
C16_MisconfigurationFailsFast ==
    /\ (job.caller = "lambda" /\ ~job.bucket /\ s3_pc # "handler")
            => /\ s3_pc = "returned"
               /\ outcome.kind = "status" /\ outcome.status = 400
               /\ calls = NoCalls
    /\ ((job.caller = "direct" \/ job.bucket) /\ ~s3_bucket
        /\ s3_pc \notin {"handler", "construct", "scrape"})
            => /\ s3_pc = EndOf("raise")
               /\ outcome.error = "ValueError"
               /\ outcome.kind = IF job.caller = "direct" THEN "raise" ELSE "status"
               /\ calls = NoCalls

C16_Witness ==
    /\ job.caller = "direct" /\ ~job.bucket
    /\ s3_pc = "raised"
    /\ outcome.kind = "raise" /\ outcome.error = "ValueError"
    /\ calls = NoCalls

\* C18: Incremental mode.  With incremental set, a link whose slug is among
\* the slugs read from storage at the start of the run is passed over: no
\* detail fetch, no storage write, the skipped counter goes up by exactly
\* one; every other link has its detail page fetched.  The slugs read at the
\* start stay as they are.
C18_IncrementalSkip ==
    [][(s3_pc = "each" /\ link_i' = link_i + 1) =>
        /\ existing_slugs' = existing_slugs
        /\ IF job.incremental /\ generate_slug(listing_urls[link_i]) \in existing_slugs
           THEN /\ stats' = [stats EXCEPT !.skipped = @ + 1]
                /\ calls' = calls
           ELSE /\ stats'.skipped = stats.skipped
                /\ calls'.http = calls.http + 1
                /\ calls'.s3_put \in {calls.s3_put, calls.s3_put + 1}]_vars

C18_Witness ==
    /\ s3_pc = "returned"
    /\ job.incremental
    /\ Len(listing_urls) = 4
    /\ stats.skipped = 2
    /\ stats.new = 2
    /\ calls.http = 2

\* the next cursor a loop cycle reads from a response document, given the
\* cursor held when the request was sent
SuppliedCursor(x) ==
    IF x.kind = "ok" /\ DocOf(x).t = "obj" THEN find_next_max_id(DocOf(x), x.cur) ELSE Null

\* C21: Cursor update on every successful cycle.  After a successful page
\* fetch of the paging loop, a page without extracted listings included, the
\* next request of the loop carries the next cursor of that response
\* whenever the response supplies one that differs from the cursor held.
C21_CursorTakenEveryCycle ==
    (/\ prev.phase = "loop" /\ last.phase = "loop"
     /\ prev.kind = "ok"
     /\ Truthy(SuppliedCursor(prev))
     /\ SuppliedCursor(prev) # prev.cur)
        => last.sent = SuppliedCursor(prev)

\* the values stored under key k anywhere in a document
RECURSIVE ValuesUnder(_, _)
ValuesUnder(x, k) ==
    IF x.t = "obj" THEN
        {x.v[i][2] : i \in {j \in DOMAIN x.v : x.v[j][1] = k}}
        \cup UNION {ValuesUnder(x.v[i][2], k) : i \in DOMAIN x.v}
    ELSE IF x.t = "arr" THEN UNION {ValuesUnder(x.v[i], k) : i \in DOMAIN x.v}
    ELSE {}

\* the next cursor as stated: a next_max_id of the document when there is
\* one, else a max_id that differs from the cursor in use, else none
StatedNextCursor(doc, cur, next) ==
    IF ValuesUnder(doc, "next_max_id") # {} THEN next \in ValuesUnder(doc, "next_max_id")
    ELSE IF ValuesUnder(doc, "max_id") \ {cur} # {} THEN next \in ValuesUnder(doc, "max_id") \ {cur}
    ELSE next = Null

\* C22: Next-cursor precedence.  For every response mapping of a processed
\* loop page the next cursor is the value of a next_max_id key when one
\* occurs anywhere in the document; a max_id is used only when no
\* next_max_id occurs anywhere, and only with a value other than the cursor
\* just used; otherwise there is no next cursor.  The cursor the loop then
\* holds is that value when it is a usable new one.
C22_NextCursorPrecedence ==
    (InLoop(last) /\ last.result = "processed" /\ DocOf(last).t = "obj")
        => /\ StatedNextCursor(DocOf(last), last.cur, SuppliedCursor(last))
           /\ (ValuesUnder(DocOf(last), "next_max_id") \ {Null, last.cur} # {})
                => max_id \in ValuesUnder(DocOf(last), "next_max_id")

\* C23: Empty-streak counter.  Every page request of a loop is issued with
\* the counter at 0 or 1.  A page with no extracted listing adds exactly 1
\* to it, and the loop stops for emptiness exactly when that makes it 2; a
\* page with at least one extracted listing leaves it at 0; a failed cycle
\* leaves it as it was.
C23_EmptyStreak ==
    [][(pc \in {"loop", "restart"} /\ n_requests' = n_requests + 1) =>
        /\ consecutive_empty \in {0, 1}
        /\ CASE last'.result = "empty" ->
                    /\ consecutive_empty' = consecutive_empty + 1
                    /\ IF consecutive_empty' = 2
                       THEN pc' # pc /\ page_num' = page_num
                       ELSE /\ page_num' = page_num + 1
                            /\ LoopGuard(page_num') => pc' = pc
             [] last'.result \in {"processed", "aborted", "dumpfail"} ->
                    /\ extract_listings(DocOf(last'), 0) # <<>>
                    /\ consecutive_empty' = 0
             [] OTHER -> consecutive_empty' = consecutive_empty]_vars

\* a page with listings, then an empty page after which the loop goes on
C23_Witness ==
    /\ prev.phase = "loop" /\ prev.result = "processed"
    /\ last.phase = "loop" /\ last.result = "empty"
    /\ consecutive_empty = 1
    /\ pc = "loop"

\* C24: Synthesized cursor precondition.  A loop request carries a cursor
\* with the ENC_ marker only when a page_group_id is held, no server cursor
\* is held and the page number is above 1; with neither a server cursor nor a
\* page_group_id the request carries no max_id; a held server cursor is sent
\* as it is.  The initial call and the fallback call carry no max_id.
C24_SynthesizedOnlyWithGroup ==
    /\ InLoop(last) =>
        /\ SentSynthesized
            => /\ Truthy(page_group_id)
               /\ ~Truthy(last.cur)
               /\ last.page > 1
        /\ (~Truthy(last.cur) /\ ~Truthy(page_group_id)) => last.sent = Null
        /\ Truthy(last.cur) => last.sent = last.cur
    /\ ~InLoop(last) => last.sent = Null

\* a synthesized cursor in the restart loop, the page_group_id found in the
\* page text during the fallback
C24_Witness ==
    /\ last.phase = "restart"
    /\ SentSynthesized
    /\ last.page = 2
    /\ Html.script_pgid = Null
    /\ page_group_id = Html.text_pgid

RECURSIVE ConcatAll(_)
ConcatAll(ss) == IF ss = <<>> THEN <<>> ELSE Head(ss) \o ConcatAll(Tail(ss))

\* a mapping with one of the six listing keys
ListingShaped(x) ==
    x.t = "obj" /\ \E k \in {"canonical_path", "path", "id", "title", "listing_id", "post_id"} : HasKey(x, k)

\* the candidate arrays of a document in traversal order: at a mapping the
\* list under the first of posts, data, listings, else the mapping itself
\* when it is listing-shaped; a list whose first element is listing-shaped;
\* below any other node the candidates of its branches, one after the other
RECURSIVE CandidatesInOrder(_, _)
CandidatesInOrder(x, depth) ==
    IF depth > DepthLimit THEN <<>>
    ELSE IF HasTopArray(x) THEN << FirstTopArray(x) >>
    ELSE IF ListingShaped(x) THEN << <<x>> >>
    ELSE IF x.t = "obj" THEN
        ConcatAll([i \in DOMAIN x.v |->
                      IF x.v[i][1] \in SkippedKeys THEN <<>>
                      ELSE CandidatesInOrder(x.v[i][2], depth + 1)])
    ELSE IF x.t = "arr" THEN
        IF x.v # <<>> /\ ListingShaped(x.v[1]) THEN << x.v >>
        ELSE ConcatAll([i \in DOMAIN x.v |-> CandidatesInOrder(x.v[i], depth + 1)])
    ELSE <<>>

PathKeys == <<"canonical_path", "path", "url">>
\* the first truthy one of id, listing_id, post_id, Null when none
FirstId(l) ==
    IF \E k \in {"id", "listing_id", "post_id"} : Truthy(Get(l, k))
    THEN Get(l, <<"id", "listing_id", "post_id">>[
                    CHOOSE i \in 1..3 :
                        /\ Truthy(Get(l, <<"id", "listing_id", "post_id">>[i]))
                        /\ \A j \in 1..(i - 1) : ~Truthy(Get(l, <<"id", "listing_id", "post_id">>[j]))])
    ELSE Null
\* the source a listing's link comes from, by precedence: the value under
\* the first present path key; else the title with the id; else the id
StatedSource(l) ==
    IF \E i \in DOMAIN PathKeys : HasKey(l, PathKeys[i])
    THEN Get(l, PathKeys[CHOOSE i \in DOMAIN PathKeys :
                            /\ HasKey(l, PathKeys[i])
                            /\ \A j \in 1..(i - 1) : ~HasKey(l, PathKeys[j])])
    ELSE IF HasKey(l, "title") /\ Truthy(FirstId(l))
    THEN Str(<<"/","l","i","s","t","i","n","g","/">> \o SlugCaseKept(Get(l, "title").v)
             \o <<"-">> \o PyStr(FirstId(l)))
    ELSE IF Truthy(FirstId(l)) THEN Str(<<"/","l","i","s","t","i","n","g","/">> \o PyStr(FirstId(l)))
    ELSE Null
\* the list after the link of one listing was added to it
StatedAdd(links, src) ==
    IF src.t = "str" /\ src.v # <<>> /\ HttpLink(src.v) \notin Range(links)
    THEN Append(links, HttpLink(src.v))
    ELSE links
\* the links of listings i..n added, one after the other, to a list (the
\* length test has the list computed at every step)
RECURSIVE StatedLinks(_, _, _, _)
StatedLinks(ls, i, n, links) ==
    IF i > n \/ Len(links) < 0 THEN links
    ELSE StatedLinks(ls, i + 1, n,
                     StatedAdd(links, IF ls[i].t = "obj" THEN StatedSource(ls[i]) ELSE Null))

\* C26: Path precedence.  The links a page adds are, listing by listing,
\* those of the first key present in the order canonical_path, path, url,
\* title with id, id; a lower source is not used when a higher key is
\* present, and a listing with none of them adds no link.
C26_PathPrecedence ==
    [][(n_requests' = n_requests + 1 /\ (Listed(last') \/ last'.result = "dumpfail"))
        => listing_links' = StatedLinks(ListingsOf(last'), 1, last'.handled, listing_links)]_vars

\* the page with a listing for every source was processed: the link of the
\* canonical_path is in the list, that of the path beside it is not
C26_Witness ==
    /\ last.result = "processed"
    /\ DocOf(last) = VarietyDoc
    /\ last.handled = Len(ListingsOf(last))
    /\ HttpLink(<<"/","r">>) \in Range(listing_links)
    /\ HttpLink(<<"/","p">>) \notin Range(listing_links)
    /\ HttpLink(<<"/","l","i","s","t","i","n","g","/","4","0","1">>) \in Range(listing_links)

\* C27: Absolute links invariant.  At every point of a run every element of
\* the accumulated list starts with "http" and none is the empty string.
C27_AbsoluteLinks ==
    \A i \in DOMAIN listing_links :
        /\ listing_links[i] # <<>>
        /\ Len(listing_links[i]) >= 4
        /\ SubSeq(listing_links[i], 1, 4) = <<"h","t","t","p">>

\* a finished run holding a link that was absolute in the response, one
\* that got the origin prefixed and one from the scan of the page text
C27_Witness ==
    /\ pc = "done"
    /\ <<"h","t","t","p",":","/","/","x","/","1">> \in Range(listing_links)
    /\ SchemeLink(<<"/","r">>) \in Range(listing_links)
    /\ SchemeLink(<<"/","l","i","s","t","i","n","g","/","h","1">>) \in Range(listing_links)

\* a listing object with a malformed field: a title, or the value under its
\* first path key, that is neither a string nor null
MalformedListing(l) ==
    /\ l.t = "obj"
    /\ \/ \E k \in {"canonical_path", "path", "url"} : Get(l, k).t \notin {"str", "null"}
       \/ HasKey(l, "title") /\ Get(l, "title").t \notin {"str", "null"}

\* C28: Malformed listing is local.  On a loop page holding a listing with
\* a malformed field every well-formed listing of the page still has its
\* link in the list, the page's cursor is taken and the loop is not ended by
\* the listing.
C28_MalformedIsLocal ==
    [][(/\ n_requests' = n_requests + 1
        /\ InLoop(last') /\ last'.kind = "ok"
        /\ \E i \in DOMAIN ListingsOf(last') : MalformedListing(ListingsOf(last')[i]))
        => /\ \A i \in DOMAIN ListingsOf(last') :
                (/\ ListingsOf(last')[i].t = "obj"
                 /\ ~MalformedListing(ListingsOf(last')[i])
                 /\ StatedSource(ListingsOf(last')[i]).t = "str"
                 /\ StatedSource(ListingsOf(last')[i]).v # <<>>)
                    => HttpLink(StatedSource(ListingsOf(last')[i]).v) \in Range(listing_links')
           /\ (Truthy(SuppliedCursor(last')) /\ SuppliedCursor(last') # max_id)
                    => /\ max_id' = SuppliedCursor(last')
                       /\ LoopGuard(page_num') => pc' = pc]_vars

\* the list after a scan of the page text: the links of the matches that
\* are not in the list yet, each once, in the order of the text
ScanAppended(links, urls) ==
    links \o SelectSeq([k \in DOMAIN urls |->
                            IF SchemeLink(urls[k]) \in Range(links)
                               \/ \E j \in 1..(k - 1) : urls[j] = urls[k]
                            THEN <<>> ELSE SchemeLink(urls[k])],
                       LAMBDA u : u # <<>>)

\* C29: Fallback activation threshold.  When the paging loop has ended the
\* scan of the page text is made if and only if fewer than 50 links are held;
\* it appends only links not yet in the list; it is made at most once: the
\* run never comes back to the point after the loop.
C29_FallbackThreshold ==
    [][/\ pc = "fallback"
            => /\ pc' # "fallback"
               /\ listing_links' = IF Len(listing_links) < 50
                                   THEN ScanAppended(listing_links, Html.urls)
                                   ELSE listing_links
       /\ pc \in {"retry", "restart", "done", "raised"} => pc' # "fallback"
       /\ pc' = "fallback" => pc \in {"initial", "loop"}]_vars

\* 49 links after the loop: the scan was made and brought the fiftieth
C29_Witness ==
    /\ pc \in {"retry", "done"}
    /\ last.phase = "loop"
    /\ Len(last.before) + last.new_count = 49
    /\ Len(listing_links) = 50
    /\ listing_links[50] = SchemeLink(Html.urls[1])

\* C30 as stated: whenever the fallback is activated and a page_group_id or
\* a cursor is available, held from the primary phase or recovered during
\* the fallback, paging is restarted from page 2.
C30_RestartWhenTokens ==
    [][/\ (pc = "fallback" /\ Len(listing_links) < 50
           /\ (Truthy(max_id) \/ Truthy(page_group_id)))
            => pc' \in {"retry", "restart"}
       /\ (pc = "retry" /\ (Truthy(max_id') \/ Truthy(page_group_id)))
            => page_num' = 2]_vars

\* C30 (amended): paging is restarted from page 2 exactly when the fallback
\* was activated with neither a cursor nor a page_group_id held and at least
\* one link in the list, a page_group_id was found in the page text or the
\* fallback call brought a cursor, and the page counter has not passed
\* max_pages.  An activated fallback that already holds a cursor or a
\* page_group_id ends the run without a restart.
C30_RestartAfterRecovery ==
    [][/\ (pc = "fallback" /\ Len(listing_links) < 50
           /\ (Truthy(max_id) \/ Truthy(page_group_id)))
            => pc' = "done"
       /\ pc' = "retry"
            => /\ pc = "fallback" /\ Len(listing_links) < 50
               /\ ~Truthy(max_id) /\ ~Truthy(page_group_id) /\ listing_links' # <<>>
       /\ pc = "retry"
            => IF (Truthy(max_id') \/ Truthy(page_group_id)) /\ page_num <= max_pages
               THEN /\ page_num' = 2
                    /\ consecutive_empty' = 0
                    /\ pc' = IF 2 <= max_pages THEN "restart" ELSE "done"
               ELSE /\ page_num' = page_num
                    /\ pc' = "done"
       /\ pc' = "restart" => pc \in {"retry", "restart"}]_vars

\* the restart loop has sent the request for page 2 with the cursor the
\* fallback call brought
C30_Witness ==
    /\ last.phase = "restart" /\ last.page = 2
    /\ prev.phase = "retry" /\ prev.kind = "ok"
    /\ Truthy(last.sent) /\ ~SentSynthesized
    /\ page_group_id = Null

\* s is t with some elements left out, the order kept
RECURSIVE IsSubSeq(_, _)
IsSubSeq(s, t) ==
    IF s = <<>> THEN TRUE
    ELSE IF t = <<>> THEN FALSE
    ELSE IF Head(s) = Head(t) THEN IsSubSeq(Tail(s), Tail(t))
    ELSE IsSubSeq(s, Tail(t))

\* C31: Detail collaborator use.  In scrape_listings and in
\* scrape_listings_with_s3 the detail page is asked for at most once per
\* discovered link and in discovery order; a detail fetch that fails only
\* leaves that link out of the output, and the loop goes on with the next
\* link whatever the fetch gave.
C31_DetailOncePerLink ==
    /\ [](/\ IsSubSeq(calls.visited, listing_urls)
          /\ IsSubSeq(calls.kept, calls.visited)
          /\ NoDuplicates(calls.visited)
          /\ calls.http = Len(calls.visited))
    /\ [][(s3_pc \in {"each", "plain_each"}) =>
            /\ link_i' = link_i + 1
            /\ calls'.visited \in {calls.visited, Append(calls.visited, listing_urls[link_i])}
            /\ calls'.kept \in {calls.kept, Append(calls.kept, listing_urls[link_i])}
            /\ (s3_pc = "plain_each" \/ ~job.incremental
                \/ generate_slug(listing_urls[link_i]) \notin existing_slugs)
                    => calls'.visited = Append(calls.visited, listing_urls[link_i])
            /\ s3_pc' = IF link_i < Len(listing_urls) THEN s3_pc
                        ELSE IF s3_pc = "each" THEN "final" ELSE "returned"]_vars

\* every link of a list of three was visited, the fetch for the second
\* failed, and the third is in the output after the first
C31_Witness ==
    /\ s3_pc = "returned"
    /\ Len(listing_urls) = 3
    /\ calls.visited = listing_urls
    /\ calls.kept = <<listing_urls[1], listing_urls[3]>>

\* C32 as stated: Termination.  Under every max_pages and every sequence of
\* server responses get_listing_links eventually returns; every iteration
\* of the paging loop and of the restart loop leaves the loop or adds
\* exactly 1 to the page counter.
C32_EventuallyReturns ==
    /\ <>(pc = "done")
    /\ [][(pc \in {"loop", "restart"}) =>
            /\ page_num' \in {page_num, page_num + 1}
            /\ (pc' = pc) => (page_num' = page_num + 1)]_vars

\* the call comes to its end, by a return or by the exception of the closet
\* fetch, and the loops count up as stated
C32_Termination ==
    /\ <>(pc \in {"done", "raised"})
    /\ [][(pc \in {"loop", "restart"}) =>
            /\ page_num' \in {page_num, page_num + 1}
            /\ (pc' = pc) => (page_num' = page_num + 1)]_vars

\* a run that went through the paging loop and the restart loop up to the
\* last page has returned
C32_Witness ==
    /\ pc = "done"
    /\ max_pages = MaxPagesBound
    /\ last.phase = "restart"
    /\ last.page = max_pages
    /\ page_num = max_pages + 1

\* The order in which a call passes its phases
PcRank(p) ==
    CASE p = "start" -> 0 [] p = "initial" -> 1 [] p = "loop" -> 2 [] p = "fallback" -> 3
      [] p = "retry" -> 4 [] p = "restart" -> 5 [] p = "done" -> 6 [] p = "raised" -> 6

\* C33: Request bound.  In one run of get_listing_links the number of API
\* page requests is at most 2*max_pages + 2: the initial call and the
\* fallback call are made at most once each, every iteration of the paging
\* loop sends one request for a page number in 1..max_pages and every
\* iteration of the restart loop one for a page number in 2..max_pages, the
\* page numbers of a loop going up by one; the restart loop is entered at
\* most once, after the fallback call, and left only by the return.
C33_RequestBound ==
    /\ [](n_requests <= 2 * max_pages + 2)
    /\ [](last.phase = "none" => n_requests = 0)
    /\ [](last.phase = "initial" => n_requests = 1)
    /\ [](last.phase = "loop" => n_requests <= 1 + last.page /\ last.page \in 1..max_pages)
    /\ [](last.phase = "retry" => n_requests <= 1 + max_pages + 1)
    /\ [](last.phase = "restart" =>
            n_requests <= 1 + max_pages + 1 + (last.page - 1) /\ last.page \in 2..max_pages)
    /\ [][/\ PcRank(pc') >= PcRank(pc)
          /\ (pc' = pc) => (pc \in {"loop", "restart"})
          /\ (pc \in {"start", "fallback"}) => (n_requests' = n_requests)
          /\ (pc \in {"initial", "retry"}) =>
                (n_requests' = n_requests + 1 /\ last'.phase = pc /\ last'.sent = Null)
          /\ (pc \in {"loop", "restart"}) =>
                /\ n_requests' = n_requests + 1
                /\ last'.phase = pc /\ last'.page = page_num
                /\ (pc' = pc) => (page_num' = page_num + 1)
          /\ (pc' = "restart" /\ pc # "restart") => (pc = "retry" /\ page_num' = 2)
          /\ (pc = "restart") => (pc' \in {"restart", "done"})]_vars

\* a run that made every request the bound allows for: the initial call, a
\* paging loop up to the last page, the fallback call and a restart loop up
\* to the last page
C33_Witness ==
    /\ pc = "done"
    /\ max_pages = MaxPagesBound
    /\ last.phase = "restart"
    /\ n_requests = 2 * max_pages + 1

\* The number of links held when the paging loop ended, read between the
\* loop and the restart: the list before the last exchange of the loop and
\* what that exchange added
LoopEndLinks == Len(last.before) + last.new_count

\* C34 as stated: Restart precondition.  The restart loop is entered only
\* if, when the paging loop ended, fewer than 50 links and at least one link
\* were accumulated, neither a cursor nor a page_group_id was held, one of
\* them was then recovered, and the page counter left by the paging loop was
\* not above max_pages; a paging loop that stopped at the ceiling is never
\* followed by a restart.
C34_RestartPrecondition ==
    /\ [](pc = "fallback" => Len(listing_links) = LoopEndLinks)
    /\ [][/\ (pc = "loop" /\ pc' # "loop") => pc' = "fallback"
          /\ (pc = "fallback")
               => /\ pc' \in {"retry", "done"}
                  /\ page_num' = page_num /\ max_id' = max_id /\ last' = last
          /\ (pc' = "retry") => (pc = "fallback" /\ ~Truthy(max_id) /\ ~Truthy(page_group_id))
          /\ (pc = "retry")
               => /\ pc' \in {"restart", "done"}
                  /\ page_group_id' = page_group_id /\ listing_links' = listing_links
          /\ (pc' = "restart" /\ pc # "restart")
               => /\ pc = "retry"
                  /\ LoopEndLinks < FallbackThreshold
                  /\ LoopEndLinks >= 1
                  /\ Truthy(max_id') \/ Truthy(page_group_id)
                  /\ page_num <= max_pages
          /\ (pc \in {"fallback", "retry"} /\ page_num > max_pages) => pc' # "restart"]_vars

\* C34 (amended): as stated, with the list holding at least one link after
\* the HTML scan of the fallback instead of when the paging loop ended.
C34_RestartAfterScan ==
    /\ [](pc = "fallback" => Len(listing_links) = LoopEndLinks)
    /\ [][/\ (pc = "loop" /\ pc' # "loop") => pc' = "fallback"
          /\ (pc = "fallback")
               => /\ pc' \in {"retry", "done"}
                  /\ page_num' = page_num /\ max_id' = max_id /\ last' = last
          /\ (pc' = "retry") => (pc = "fallback" /\ ~Truthy(max_id) /\ ~Truthy(page_group_id))
          /\ (pc = "retry")
               => /\ pc' \in {"restart", "done"}
                  /\ page_group_id' = page_group_id /\ listing_links' = listing_links
          /\ (pc' = "restart" /\ pc # "restart")
               => /\ pc = "retry"
                  /\ LoopEndLinks < FallbackThreshold
                  /\ Len(listing_links) >= 1
                  /\ Truthy(max_id') \/ Truthy(page_group_id)
                  /\ page_num <= max_pages
          /\ (pc \in {"fallback", "retry"} /\ page_num > max_pages) => pc' # "restart"]_vars

\* the restart loop is entered after a paging loop that ended with an empty
\* list: the links came from the HTML scan, the cursor from the fallback call
\* or the page_group_id from the page text
C34_Witness ==
    /\ pc = "restart"
    /\ last.phase = "retry"
    /\ prev.phase = "loop" /\ prev.before = <<>> /\ prev.new_count = 0
    /\ listing_links # <<>>

C36_InitialGating ==
    [][/\ (pc = "initial") =>
            /\ page_group_id = Html.script_pgid
            /\ n_requests' = n_requests + 1
            /\ last'.phase = "initial" /\ last'.sent = Null
            /\ Truthy(Html.script_pgid) =>
                  /\ listing_links' = <<>> /\ seen_ids' = {} /\ max_id' = Null
                  /\ page_group_id' = page_group_id
                  /\ page_num' = 1
                  /\ last'.result \in {"unmined", "failed"}
            /\ (listing_links' # <<>> \/ Truthy(max_id') \/ last'.result \in {"mined", "aborted"})
                  => ~Truthy(Html.script_pgid)
       /\ (pc = "loop" /\ last.phase = "initial" /\ Truthy(Html.script_pgid)) =>
            (last'.page = 1 /\ last'.sent = Null)]_vars

\* with a page_group_id from the scripts, an initial response that holds
\* listings and a cursor was left unmined, and the first request of the loop
\* went out for page 1 without max_id
C36_Witness ==
    /\ Truthy(Html.script_pgid)
    /\ prev.phase = "initial" /\ prev.kind = "ok" /\ prev.result = "unmined"
    /\ DocOf(prev).t = "obj"
    /\ extract_listings(DocOf(prev), 0) # <<>>
    /\ Truthy(InitialCursor(DocOf(prev)))
    /\ last.phase = "loop" /\ last.page = 1 /\ last.sent = Null /\ last.before = <<>>

\* C37: Closet page failure.  The fetch of the closet page leads to the
\* initial API call, to the return or to an exception and nowhere else; a
\* call that returns from there, as it does on a non-2xx status, returns the
\* empty list and has sent no API request, whatever the closet page holds.
C37_ClosetFailure ==
    /\ [](pc = "start" => (n_requests = 0 /\ listing_links = <<>>))
    /\ []((pc = "done" /\ last = NoExchange) =>
            (listing_links = <<>> /\ n_requests = 0))
    /\ [][(pc = "start") =>
            /\ pc' \in {"initial", "done", "raised"}
            /\ (pc' = "done") =>
                  /\ listing_links' = <<>>
                  /\ n_requests' = 0 /\ last' = NoExchange
                  /\ page_group_id' = Null /\ max_id' = Null]_vars

\* the call has returned without an exchange, on a closet page that holds
\* listing links and a page_group_id
C37_Witness ==
    /\ pc = "done"
    /\ last = NoExchange
    /\ Html.urls # <<>> /\ Truthy(Html.script_pgid)
    /\ listing_links = <<>> /\ n_requests = 0

\* the links the per-link loop of the storage run has passed so far
LinksHandled == IF link_i = 0 THEN 0 ELSE link_i - 1

\* C38: Storage run statistics.  At every point of scrape_listings_with_s3
\* total = new + updated and skipped + total is at most the number of links
\* handled so far; updated is 0; without incremental the set of existing
\* slugs is empty and skipped is 0; the statistics handed back are those of
\* the run.
C38_StorageStatistics ==
    (job.caller \in {"lambda", "direct"}) =>
        /\ stats.total = stats.new + stats.updated
        /\ stats.skipped + stats.total <= LinksHandled
        /\ LinksHandled <= Len(listing_urls)
        /\ stats.updated = 0
        /\ ~job.incremental => (existing_slugs = {} /\ stats.skipped = 0)
        /\ (outcome.kind = "return" \/ outcome.status = 200) =>
              /\ outcome.stats = stats
              /\ s3_pc = "returned"

\* an incremental run has returned: a listing whose slug the bucket held
\* was skipped, another was saved as new, and a third was neither
C38_Witness ==
    /\ job.caller = "direct" /\ job.incremental
    /\ s3_pc = "returned" /\ outcome.kind = "return"
    /\ stats.skipped >= 1 /\ stats.new >= 1
    /\ stats.skipped + stats.total < Len(listing_urls)

\* C39: lambda_handler outcome.  A call of lambda_handler with an event of
\* the documented structure, a mapping, never ends in an exception; what it
\* returns carries status 400, 500 or 200: 400 exactly
\* when no bucket is given, and then nothing was constructed or called; 500
\* with the error when the run raised; 200 with the statistics of the run
\* when it returned.
C39_LambdaOutcome ==
    (job.caller = "lambda") =>
        /\ s3_pc # "raised"
        /\ outcome.kind \in {"none", "status"}
        /\ (s3_pc = "returned") = (outcome.kind = "status")
        /\ (outcome.kind = "status") =>
              /\ outcome.status \in {400, 500, 200}
              /\ (outcome.status = 400) = ~job.bucket
              /\ (outcome.status = 400) => (calls = NoCalls /\ ~s3_bucket /\ stats = NoStats)
              /\ (outcome.status = 500) =>
                    (outcome.error \in {"ValueError", "Exception"} /\ outcome.stats = NoStats)
              /\ (outcome.status = 200) => (outcome.error = "none" /\ outcome.stats = stats)

\* lambda_handler has answered with status 500 a run whose link discovery
\* raised after the bucket was listed
C39_Witness ==
    /\ job.caller = "lambda" /\ job.bucket
    /\ s3_pc = "returned"
    /\ outcome.status = 500 /\ outcome.error = "Exception"
    /\ calls.links = 1 /\ calls.s3_list = 1

====
